---- MODULE Spec2Model ----
(***************************************************************************)
(* Photo manager (photo_manager.py): the SQLite-backed store               *)
(* (DatabaseHandler), the directory scan (PhotoScanner, process_file) and  *)
(* the orphan cleanup (clean_db), as a state machine.                      *)
(*                                                                         *)
(* A file path is a number 1..NumFiles; the order of the numbers is the    *)
(* lexicographic order of the paths.  Directory "A" is a tree holding      *)
(* every file, "B" is the sub-directory of "A" holding the files >= 2,     *)
(* and "X" is a path that is not a directory.                              *)
(*                                                                         *)
(* Spec is that state machine and FairSpec adds the fairness of a running  *)
(* scan.  DataSpec follows one file from its EXIF tags through             *)
(* process_file, the loop body and the store to its map payload tuple      *)
(* (ExifExtractor, MapGenerator._generate_html); QuerySpec runs get_photos *)
(* and count_photos over small stores.  MapSpec follows one map-generation *)
(* request from its caller (generate_map.py, main_menu, the GUI) through   *)
(* generate_map_non_interactive and MapGenerator.run to the output file;   *)
(* GuiSpec is the GUI's buttons, stop_event, job threads and queue         *)
(* (gui.py).                                                               *)
(***************************************************************************)
EXTENDS Integers, Sequences, FiniteSets, TLC

\* ------------------------------------------------------------------ bounds
NumFiles == 3
MaxRoots == 2
MaxWorkers == 2
\* operations started in one behaviour, and changes made to the disk
MaxOps == 2
MaxDiskChanges == 1
\* DatabaseHandler.buffer_size, scaled down (PhotoScanner passes 100)
BufferSize == 2

Paths == 1..NumFiles
Dirs == {"A", "B", "X"}
Modes == {"mp", "st"}

VARIABLES
    disk,      \* the files that exist on disk
    dbOk,      \* whether sqlite3.connect(db_name) succeeds (fixed per behaviour)
    db,        \* the database file: [table, rows, nextId]
    h,         \* the DatabaseHandler in use: [conn, buffer], and handed, the
               \* records passed to insert_exif_data since it was made
    pc,        \* position of the running operation, "idle" when none runs
    scan,      \* locals of scan_media_non_interactive / PhotoScanner
    stop_set,  \* stop_event.is_set()
    cl,        \* locals of clean_db
    ret,       \* what the last operation returned with
    dbret,     \* the DatabaseHandler method that returned last
    hist,      \* the scan that returned last, if no operation followed it
    budget,    \* [ops, changes]: operations started, disk changes made
    ex,        \* one file on its way through process_file, the loop body,
               \* the store and the map payload (DataSpec)
    qs,        \* a store's rows with the filters and results of get_photos
               \* and count_photos (QuerySpec)
    mg,        \* one map-generation request on its way from the caller to
               \* the output file (MapSpec)
    gui        \* the GUI's buttons, stop_event and background threads
               \* (GuiSpec)

vars == <<disk, dbOk, db, h, pc, scan, stop_set, cl, ret, dbret, hist, budget,
          ex, qs, mg, gui>>

\* ------------------------------------------------------------ sequences
Range(s) == {s[k] : k \in 1..Len(s)}

RECURSIVE SeqOfSet(_)
\* the elements of a set of numbers, ascending
SeqOfSet(S) ==
    IF S = {} THEN <<>>
    ELSE LET m == CHOOSE x \in S : \A y \in S : x <= y
         IN <<m>> \o SeqOfSet(S \ {m})

RECURSIVE InsertSorted(_, _)
InsertSorted(s, x) ==
    IF s = <<>> THEN <<x>>
    ELSE IF x <= Head(s) THEN <<x>> \o s
    ELSE <<Head(s)>> \o InsertSorted(Tail(s), x)

RECURSIVE Sort(_)
\* list.sort()
Sort(s) == IF s = <<>> THEN <<>> ELSE InsertSorted(Sort(Tail(s)), Head(s))

RootLists == UNION {[1..n -> Dirs] : n \in 1..MaxRoots}

\* ------------------------------------------------------------ file system
\* os.path.isdir
isdir(d) == d \in {"A", "B"}

\* os.walk(d), filtered by the supported extensions
walk(d) ==
    IF d = "A" THEN SeqOfSet(disk)
    ELSE IF d = "B" THEN SeqOfSet({p \in disk : p >= 2})
    ELSE <<>>

\* What a file is: 1 an image with tags, 2 an image without tags, 3 an
\* unreadable image, 0 a file whose whole name is an extension (".jpg"):
\* str.endswith accepts it, os.path.splitext gives it no extension.
FileKind(p) ==
    CASE p % 4 = 1 -> "tagged"
      [] p % 4 = 2 -> "tagless"
      [] p % 4 = 3 -> "corrupt"
      [] OTHER     -> "dotfile"

\* ----------------------------------------------------------- process_file
NoResult == [kind |-> "none", file_path |-> 0]

process_file(p) ==
    IF FileKind(p) = "dotfile" THEN NoResult
    ELSE IF p \notin disk \/ FileKind(p) = "corrupt"
         THEN [kind |-> "error", file_path |-> p]
    ELSE IF FileKind(p) = "tagless"
         THEN [kind |-> "no_exif", file_path |-> p]
    ELSE [kind |-> "data", file_path |-> p]

\* result['data']
DataOf(r) == [file_path |-> r.file_path,
              meta |-> IF r.kind = "no_exif" THEN "mtime" ELSE "exif"]

\* -------------------------------------------------------- DatabaseHandler
NewHandler == [conn |-> FALSE, buffer |-> <<>>, handed |-> <<>>]

StoredPaths(d) == {r.file_path : r \in d.rows}

create_connection(hd) == [hd EXCEPT !.conn = dbOk]

close_connection(hd) == [hd EXCEPT !.conn = FALSE]

\* INSERT without the uniqueness constraint
InsertAlways(d, rec) ==
    [d EXCEPT !.rows = @ \cup {[id |-> d.nextId, file_path |-> rec.file_path,
                                meta |-> rec.meta]},
              !.nextId = @ + 1]

\* INSERT OR REPLACE: a row of the same path gives way to the new record
InsertOrReplace(d, rec) ==
    [d EXCEPT !.rows = {q \in @ : q.file_path # rec.file_path}
                         \cup {[id |-> d.nextId, file_path |-> rec.file_path,
                                 meta |-> rec.meta]},
              !.nextId = @ + 1]

\* INSERT OR IGNORE under file_path TEXT NOT NULL UNIQUE, id AUTOINCREMENT
InsertOrIgnore(d, rec) ==
    IF rec.file_path \in StoredPaths(d) THEN d
    ELSE [d EXCEPT !.rows = @ \cup {[id |-> d.nextId,
                                     file_path |-> rec.file_path,
                                     meta |-> rec.meta]},
                   !.nextId = @ + 1]

RECURSIVE ExecuteMany(_, _)
ExecuteMany(d, buf) ==
    IF buf = <<>> THEN d
    ELSE ExecuteMany(InsertOrIgnore(d, Head(buf)), Tail(buf))

\* a batch that misses the last buffered record
data_to_insert_drop_last(buf) == SubSeq(buf, 1, Len(buf) - 1)

\* data_to_insert: the batch flush_buffer writes
data_to_insert(buf) == buf

\* flush_buffer: [h, db] afterwards
flush_buffer(hd, d) ==
    LET h1 == IF ~hd.conn THEN create_connection(hd) ELSE hd
    IN IF ~h1.conn \/ h1.buffer = <<>> THEN [h |-> h1, db |-> d]
       ELSE IF ~d.table THEN [h |-> h1, db |-> d]
       ELSE [h |-> [h1 EXCEPT !.buffer = <<>>],
             db |-> ExecuteMany(d, data_to_insert(h1.buffer))]

\* create_table: [h, db] afterwards
create_table(hd, d) ==
    LET h1 == IF ~hd.conn THEN create_connection(hd) ELSE hd
    IN IF ~h1.conn THEN [h |-> h1, db |-> d]
       ELSE [h |-> h1, db |-> [d EXCEPT !.table = TRUE]]

\* insert_exif_data: [h, db] afterwards
insert_exif_data(hd, d, rec) ==
    LET h1 == [hd EXCEPT !.buffer = Append(@, rec),
                         !.handed = Append(@, rec)]
    IN IF Len(h1.buffer) >= BufferSize THEN flush_buffer(h1, d)
       ELSE [h |-> h1, db |-> d]

\* get_all_paths: the set returned; the connection is closed again
get_all_paths(d) == IF dbOk /\ d.table THEN StoredPaths(d) ELSE {}


\* ------------------------------------------------------------ PhotoScanner
\* all_files_on_disk: extend per root, then sort
RECURSIVE Extend(_)
Extend(dirs) == IF dirs = <<>> THEN <<>> ELSE walk(Head(dirs)) \o Extend(Tail(dirs))

all_files_on_disk(dirs) == Sort(Extend(dirs))

\* _get_files_to_process: the files on disk the store does not know
get_files_to_process(dirs, existing) ==
    SelectSeq(all_files_on_disk(dirs), LAMBDA f : f \notin existing)

\* The loop's running state: the handler, the store and the three counters.
Ctx(hd, d, ne, er, pr) ==
    [h |-> hd, db |-> d, no_exif_count |-> ne, error_count |-> er,
     processed_count |-> pr]

\* the loop body that forgets to persist a record without tags
HandleResultDropNoExif(c, r) ==
    IF r.kind = "none" THEN c
    ELSE IF r.kind = "error" THEN [c EXCEPT !.error_count = @ + 1]
    ELSE IF r.kind = "no_exif" THEN [c EXCEPT !.no_exif_count = @ + 1]
    ELSE LET w == insert_exif_data(c.h, c.db, DataOf(r))
         IN [c EXCEPT !.h = w.h, !.db = w.db, !.processed_count = @ + 1]

\* scan_directories_multiprocess, the body of the loop after the stop check
HandleResultMP(c, r) ==
    IF r.kind = "none" THEN c
    ELSE IF r.kind = "error" THEN [c EXCEPT !.error_count = @ + 1]
    ELSE IF r.kind = "no_exif"
         THEN LET w == insert_exif_data(c.h, c.db, DataOf(r))
              IN [c EXCEPT !.no_exif_count = @ + 1, !.h = w.h, !.db = w.db,
                           !.processed_count = @ + 1]
    ELSE LET w == insert_exif_data(c.h, c.db, DataOf(r))
         IN [c EXCEPT !.h = w.h, !.db = w.db, !.processed_count = @ + 1]

\* a loop body that counts a failed extraction as processed as well
HandleResultErrorProcessed(c, r) ==
    IF r.kind = "error"
    THEN [c EXCEPT !.error_count = @ + 1, !.processed_count = @ + 1]
    ELSE HandleResultMP(c, r)

\* scan_directories_single_thread, the body of the loop after the stop check
HandleResultST(c, r) ==
    IF r.kind = "none" THEN c
    ELSE IF r.kind = "error" THEN [c EXCEPT !.error_count = @ + 1]
    ELSE IF r.kind = "no_exif"
         THEN LET w == insert_exif_data(c.h, c.db, DataOf(r))
              IN [c EXCEPT !.no_exif_count = @ + 1, !.h = w.h, !.db = w.db,
                           !.processed_count = @ + 1]
    ELSE LET w == insert_exif_data(c.h, c.db, DataOf(r))
         IN [c EXCEPT !.h = w.h, !.db = w.db, !.processed_count = @ + 1]

\* self.stop_event and self.stop_event.is_set()
StopRequested == scan.ev /\ stop_set

NoScan ==
    [roots |-> <<>>, mode |-> "st", nproc |-> 1, ev |-> FALSE, files |-> <<>>,
     i |-> 1, done |-> {}, results |-> <<>>, out |-> <<>>,
     no_exif_count |-> 0, error_count |-> 0, processed_count |-> 0,
     cancelled |-> FALSE, extracted |-> 0,
     before |-> [table |-> FALSE, rows |-> {}, nextId |-> 1], opened |-> FALSE,
     quiet |-> TRUE, dir_paths |-> <<>>, skipped |-> <<>>]

NoClean == [confirmed |-> FALSE, records |-> <<>>, k |-> 1,
            non_existent_ids |-> <<>>, log |-> <<>>, before |-> {}]

NoSummary == [op |-> "none", processed |-> 0, no_exif |-> 0, errors |-> 0,
              found |-> 0, deleted |-> 0]

NoRun == [set |-> FALSE, roots |-> <<>>, paths |-> {}, count |-> 0]

\* no file is on its way through the extractor; no query is set up
NoEx == [stage |-> "none"]
NoQs == [stage |-> "none"]
NoMg == [stage |-> "none"]
NoGui == [stage |-> "none"]

\* what a scan that returns leaves in the history
RunOf(d) ==
    IF scan.quiet /\ ~scan.cancelled /\ scan.opened
    THEN [set |-> TRUE, roots |-> scan.roots, paths |-> StoredPaths(d),
          count |-> Cardinality(d.rows)]
    ELSE NoRun

Init ==
    /\ disk \in SUBSET Paths
    /\ dbOk \in BOOLEAN
    /\ db = [table |-> FALSE, rows |-> {}, nextId |-> 1]
    /\ h = NewHandler
    /\ pc = "idle"
    /\ scan = NoScan
    /\ stop_set = FALSE
    /\ cl = NoClean
    /\ ret = NoSummary
    /\ dbret = "none"
    /\ hist = NoRun
    /\ budget = [ops |-> 0, changes |-> 0]
    /\ ex = NoEx
    /\ qs = NoQs
    /\ mg = NoMg
    /\ gui = NoGui

\* a validation that gives up on the whole list when one root is invalid
valid_paths_all_or_none(dir_paths) ==
    IF \A k \in 1..Len(dir_paths) : isdir(dir_paths[k]) THEN dir_paths ELSE <<>>

\* scan_media_non_interactive: the roots that are directories, in order
valid_paths(dir_paths) == SelectSeq(dir_paths, isdir)

\* the roots reported as "not a valid directory. Skipping."
skipped_paths(dir_paths) == SelectSeq(dir_paths, LAMBDA d : ~isdir(d))

\* scan_media_non_interactive up to and including PhotoScanner.__init__
ScanConstruct(roots, mode, nproc, ev) ==
    /\ pc = "idle"
    /\ budget.ops < MaxOps
    /\ budget' = [budget EXCEPT !.ops = @ + 1]
    /\ LET valid == valid_paths(roots)
       IN IF valid = <<>>
          THEN /\ ret' = [NoSummary EXCEPT !.op = "no_valid_dirs"]
               /\ pc' = "done"
               /\ hist' = NoRun
               /\ scan' = [NoScan EXCEPT !.dir_paths = roots,
                                         !.skipped = skipped_paths(roots)]
               /\ UNCHANGED <<db, h, stop_set, dbret>>
          ELSE LET w == create_table(NewHandler, db)
               IN /\ h' = w.h
                  /\ db' = w.db
                  /\ pc' = "constructed"
                  /\ scan' = [NoScan EXCEPT !.roots = valid,
                                            !.dir_paths = roots,
                                            !.skipped = skipped_paths(roots),
                                            !.mode = mode,
                                            !.nproc = IF mode = "mp" THEN nproc ELSE 1,
                                            !.ev = ev, !.opened = w.h.conn]
                  /\ stop_set' = FALSE
                  /\ ret' = NoSummary
                  /\ dbret' = "create_table"
                  /\ UNCHANGED hist
    /\ UNCHANGED <<disk, dbOk, cl>>
    /\ UNCHANGED <<ex, qs, mg, gui>>

\* _get_files_to_process and the empty-work-list return
ScanEnumerate ==
    /\ pc = "constructed"
    /\ LET existing == get_all_paths(db)
           files == get_files_to_process(scan.roots, existing)
       IN /\ h' = close_connection(h)
          /\ dbret' = "get_all_paths"
          /\ scan' = [scan EXCEPT !.files = files,
                                  !.out = [k \in 1..Len(files) |-> NoResult],
                                  !.before = db]
          /\ IF files = <<>>
             THEN /\ pc' = "done"
                  /\ ret' = [NoSummary EXCEPT !.op = "scan_nothing"]
             ELSE /\ pc' = "loop"
                  /\ UNCHANGED ret
    /\ UNCHANGED <<disk, dbOk, db, stop_set, cl, hist, budget>>
    /\ UNCHANGED <<ex, qs, mg, gui>>

\* The loop's state as a context.
CtxNow == Ctx(h, db, scan.no_exif_count, scan.error_count, scan.processed_count)

\* the stop branch without its break: the result at hand is still handled
AfterStopNoBreak(c, r) == HandleResultMP(c, r)

\* the stop branch of both loops: break, the result at hand is not handled
AfterStop(c, r) == c

\* a loop that a failed extraction unwinds: the scan ends there, without the
\* final flush and the summary
LoopPcAbortOnError(r, last) ==
    IF r.kind = "error" THEN "done"
    ELSE IF last THEN "flush" ELSE "loop"

\* where the for loop stands after the body handled result r: at the next
\* item, or past the last one, at the final flush.  The body raises for no
\* kind of result, so r plays no part.
LoopPc(r, last) == IF last THEN "flush" ELSE "loop"

\* one iteration of the sequential loop
StepSingle ==
    /\ pc = "loop" /\ scan.mode = "st"
    /\ scan.i <= Len(scan.files)
    /\ IF StopRequested
       THEN LET c == AfterStop(CtxNow, process_file(scan.files[scan.i]))
            IN /\ scan' = [scan EXCEPT !.cancelled = TRUE,
                                       !.no_exif_count = c.no_exif_count,
                                       !.error_count = c.error_count,
                                       !.processed_count = c.processed_count]
               /\ h' = c.h
               /\ db' = c.db
               /\ pc' = "flush"
               /\ UNCHANGED dbret
       ELSE LET r == process_file(scan.files[scan.i])
                c == HandleResultST(CtxNow, r)
            IN /\ h' = c.h
               /\ db' = c.db
               /\ scan' = [scan EXCEPT !.i = @ + 1,
                                       !.out[scan.i] = r,
                                       !.extracted = @ + 1,
                                       !.no_exif_count = c.no_exif_count,
                                       !.error_count = c.error_count,
                                       !.processed_count = c.processed_count]
               /\ pc' = LoopPc(r, scan.i = Len(scan.files))
               /\ dbret' = IF r.kind \in {"data", "no_exif"}
                           THEN "insert_exif_data" ELSE dbret
    /\ UNCHANGED <<disk, dbOk, stop_set, cl, ret, hist, budget>>
    /\ UNCHANGED <<ex, qs, mg, gui>>

\* a worker that hands its own record to the store instead of returning it
WorkerFinishWrites(k) ==
    /\ pc = "loop" /\ scan.mode = "mp"
    /\ k \in 1..Len(scan.files) /\ k \notin scan.done
    /\ Cardinality({j \in 1..(k - 1) : j \notin scan.done}) < scan.nproc
    /\ LET r == process_file(scan.files[k])
           w == IF r.kind \in {"data", "no_exif"}
                THEN insert_exif_data(h, db, DataOf(r))
                ELSE [h |-> h, db |-> db]
       IN /\ scan' = [scan EXCEPT !.done = @ \cup {k},
                                  !.results = Append(@, r),
                                  !.out[k] = r,
                                  !.extracted = @ + 1]
          /\ h' = w.h
          /\ db' = w.db
    /\ UNCHANGED <<disk, dbOk, pc, stop_set, cl, ret, dbret, hist, budget>>
    /\ UNCHANGED <<ex, qs, mg, gui>>

\* A pool worker finishes the task at index k.  Tasks are handed out in list
\* order to num_processes workers, so k is among the first num_processes
\* unfinished tasks.
WorkerFinish(k) ==
    /\ pc = "loop" /\ scan.mode = "mp"
    /\ k \in 1..Len(scan.files) /\ k \notin scan.done
    /\ Cardinality({j \in 1..(k - 1) : j \notin scan.done}) < scan.nproc
    /\ LET r == process_file(scan.files[k])
       IN scan' = [scan EXCEPT !.done = @ \cup {k},
                               !.results = Append(@, r),
                               !.out[k] = r,
                               !.extracted = @ + 1]
    /\ UNCHANGED <<disk, dbOk, db, h, pc, stop_set, cl, ret, dbret, hist, budget>>
    /\ UNCHANGED <<ex, qs, mg, gui>>

\* one iteration of the loop over pool.imap_unordered
ConsumeResult ==
    /\ pc = "loop" /\ scan.mode = "mp"
    /\ scan.results # <<>>
    /\ LET r == Head(scan.results)
           last == scan.i = Len(scan.files)
       IN IF StopRequested
          THEN LET c == AfterStop(CtxNow, r)
               IN /\ scan' = [scan EXCEPT !.cancelled = TRUE,
                                          !.results = Tail(@),
                                          !.no_exif_count = c.no_exif_count,
                                          !.error_count = c.error_count,
                                          !.processed_count = c.processed_count]
                  /\ h' = c.h
                  /\ db' = c.db
                  /\ pc' = "flush"
                  /\ UNCHANGED dbret
          ELSE LET c == HandleResultMP(CtxNow, r)
               IN /\ h' = c.h
                  /\ db' = c.db
                  /\ scan' = [scan EXCEPT !.i = @ + 1,
                                          !.results = Tail(@),
                                          !.no_exif_count = c.no_exif_count,
                                          !.error_count = c.error_count,
                                          !.processed_count = c.processed_count]
                  /\ pc' = LoopPc(r, last)
                  /\ dbret' = IF r.kind \in {"data", "no_exif"}
                              THEN "insert_exif_data" ELSE dbret
    /\ UNCHANGED <<disk, dbOk, stop_set, cl, ret, hist, budget>>
    /\ UNCHANGED <<ex, qs, mg, gui>>

\* the final flush_buffer and the summary
ScanFinish ==
    /\ pc = "flush"
    /\ LET w == flush_buffer(h, db)
       IN /\ h' = w.h
          /\ db' = w.db
    /\ pc' = "done"
    /\ dbret' = "flush_buffer"
    /\ ret' = [NoSummary EXCEPT !.op = "scan",
                                 !.processed = scan.processed_count,
                                 !.no_exif = scan.no_exif_count,
                                 !.errors = scan.error_count]
    /\ UNCHANGED <<disk, dbOk, scan, stop_set, cl, hist, budget>>
    /\ UNCHANGED <<ex, qs, mg, gui>>

\* the GUI's stop button: stop_event.set()
StopSet ==
    /\ pc \in {"constructed", "loop", "flush"}
    /\ scan.ev /\ ~stop_set
    /\ stop_set' = TRUE
    /\ UNCHANGED <<disk, dbOk, db, h, pc, scan, cl, ret, dbret, hist, budget>>
    /\ UNCHANGED <<ex, qs, mg, gui>>

\* ------------------------------------------------------------- clean_db
RECURSIVE RowsById(_)
\* SELECT id, file_path FROM exif_data, in rowid order
RowsById(rows) ==
    IF rows = {} THEN <<>>
    ELSE LET m == CHOOSE r \in rows : \A q \in rows : r.id <= q.id
         IN <<[id |-> m.id, file_path |-> m.file_path]>> \o RowsById(rows \ {m})

\* os.path.exists(file_path)
path_exists(p) == p \in disk

\* the guard of the delete when the confirmation flag is not looked at
ShouldDeleteUnconfirmed(confirmed, ids) == ids # <<>>

\* if non_existent_ids: if confirmed:
ShouldDelete(confirmed, ids) == ids # <<>> /\ confirmed

\* a delete whose WHERE clause is lost
DeleteEveryRow(d, ids) == [d EXCEPT !.rows = {}]

\* executemany("DELETE FROM exif_data WHERE id = ?", non_existent_ids), commit
DeleteByIds(d, ids) ==
    [d EXCEPT !.rows = {r \in @ : r.id \notin Range(ids)}]

\* clean_db up to the SELECT
CleanStart(confirmed) ==
    /\ pc = "idle"
    /\ budget.ops < MaxOps
    /\ budget' = [budget EXCEPT !.ops = @ + 1]
    /\ LET h1 == create_connection(NewHandler)
       IN IF ~h1.conn
          THEN /\ h' = h1
               /\ pc' = "done"
               /\ ret' = [NoSummary EXCEPT !.op = "clean_no_connection"]
               /\ cl' = [NoClean EXCEPT !.confirmed = confirmed,
                                        !.before = db.rows]
               /\ dbret' = "clean_db"
          ELSE IF ~db.table
          THEN /\ h' = close_connection(h1)
               /\ pc' = "done"
               /\ ret' = [NoSummary EXCEPT !.op = "clean_error"]
               /\ cl' = [NoClean EXCEPT !.confirmed = confirmed,
                                        !.before = db.rows]
               /\ dbret' = "clean_db"
          ELSE /\ h' = h1
               /\ pc' = "clean_check"
               /\ ret' = NoSummary
               /\ cl' = [NoClean EXCEPT !.confirmed = confirmed,
                                        !.records = RowsById(db.rows),
                                        !.before = db.rows]
               /\ dbret' = "none"
    /\ UNCHANGED <<disk, dbOk, db, scan, stop_set, hist>>
    /\ UNCHANGED <<ex, qs, mg, gui>>

\* one iteration of the loop over the records
CleanCheck ==
    /\ pc = "clean_check"
    /\ cl.k <= Len(cl.records)
    /\ LET rec == cl.records[cl.k]
           there == path_exists(rec.file_path)
       IN cl' = [cl EXCEPT !.k = @ + 1,
                           !.non_existent_ids =
                               IF there THEN @ ELSE Append(@, rec.id),
                           !.log = Append(@, [id |-> rec.id, existed |-> there])]
    /\ UNCHANGED <<disk, dbOk, db, h, pc, scan, stop_set, ret, dbret, hist, budget>>
    /\ UNCHANGED <<ex, qs, mg, gui>>

\* after the loop: the delete, and the connection closed
CleanFinish ==
    /\ pc = "clean_check"
    /\ cl.k > Len(cl.records)
    /\ LET del == ShouldDelete(cl.confirmed, cl.non_existent_ids)
       IN /\ db' = IF del THEN DeleteByIds(db, cl.non_existent_ids) ELSE db
          /\ ret' = [NoSummary EXCEPT
                        !.op = "clean",
                        !.found = Len(cl.non_existent_ids),
                        !.deleted = IF del THEN Len(cl.non_existent_ids) ELSE 0]
    /\ h' = close_connection(h)
    /\ pc' = "done"
    /\ dbret' = "clean_db"
    /\ UNCHANGED <<disk, dbOk, scan, stop_set, cl, hist, budget>>
    /\ UNCHANGED <<ex, qs, mg, gui>>

\* ------------------------------------------------------------ read queries
QueryOps == {"get_photos", "count_photos", "get_unique_camera_models",
             "generate_map"}

\* get_photos, count_photos, get_unique_camera_models on a new handler:
\* connect, SELECT, close in the finally clause.  generate_map is
\* generate_map_non_interactive: count_photos, then get_photos and
\* MapGenerator.run's SELECT of the dates when the count is not zero.
Query(op) ==
    /\ pc = "idle"
    /\ budget.ops < MaxOps
    /\ budget' = [budget EXCEPT !.ops = @ + 1]
    /\ h' = close_connection(create_connection(NewHandler))
    /\ pc' = "done"
    /\ ret' = [NoSummary EXCEPT
                  !.op = IF dbOk /\ ~db.table THEN "query_error" ELSE op,
                  !.found = IF dbOk /\ db.table THEN Cardinality(db.rows) ELSE 0]
    /\ dbret' = IF op # "generate_map" THEN op
                ELSE IF dbOk /\ db.table /\ db.rows # {} THEN "get_photos"
                ELSE "count_photos"
    /\ UNCHANGED <<disk, dbOk, db, scan, stop_set, cl, hist>>
    /\ UNCHANGED <<ex, qs, mg, gui>>

\* The operation has returned: its handler and locals are dropped, and a
\* scan that got as far as its work list is remembered in the history.
Return ==
    /\ pc = "done"
    /\ pc' = "idle"
    /\ hist' = IF ret.op \in {"scan", "scan_nothing"} THEN RunOf(db) ELSE NoRun
    /\ h' = NewHandler
    /\ scan' = NoScan
    /\ cl' = NoClean
    /\ ret' = NoSummary
    /\ dbret' = "none"
    /\ stop_set' = FALSE
    /\ UNCHANGED <<disk, dbOk, db, budget>>
    /\ UNCHANGED <<ex, qs, mg, gui>>

\* ------------------------------------------------------------ environment
\* A file appears or disappears; a scan it happens under, or after, is no
\* longer a scan of an unchanged tree.
DiskChange(p) ==
    /\ budget.changes < MaxDiskChanges
    /\ budget' = [budget EXCEPT !.changes = @ + 1]
    /\ disk' = IF p \in disk THEN disk \ {p} ELSE disk \cup {p}
    /\ scan' = [scan EXCEPT !.quiet = FALSE]
    /\ hist' = NoRun
    /\ UNCHANGED <<dbOk, db, h, pc, stop_set, cl, ret, dbret>>
    /\ UNCHANGED <<ex, qs, mg, gui>>

Next ==
    \/ \E roots \in RootLists, mode \in Modes, nproc \in 1..MaxWorkers,
          ev \in BOOLEAN : ScanConstruct(roots, mode, nproc, ev)
    \/ ScanEnumerate
    \/ StepSingle
    \/ \E k \in 1..(MaxRoots * NumFiles) : WorkerFinish(k)
    \/ ConsumeResult
    \/ ScanFinish
    \/ StopSet
    \/ \E confirmed \in BOOLEAN : CleanStart(confirmed)
    \/ CleanCheck
    \/ CleanFinish
    \/ \E op \in QueryOps : Query(op)
    \/ Return
    \/ \E p \in Paths : DiskChange(p)

Spec == Init /\ [][Next]_vars

\* A scan that entered its loop keeps running: the scanning thread executes
\* the loop and the final flush, the pool's workers execute their tasks.
ScanFairness ==
    /\ WF_vars(StepSingle)
    /\ WF_vars(\E k \in 1..(MaxRoots * NumFiles) : WorkerFinish(k))
    /\ WF_vars(ConsumeResult)
    /\ WF_vars(ScanFinish)

FairSpec == Spec /\ ScanFairness

\* ----------------------------------------------------------- ExifExtractor
\* None is the empty sequence and a value v is <<v>>.  A tag is
\* [present, values]: whether the name is in self.tags, and its .values.  A
\* rational (exifread's Ratio) is [num, den]; a float the code computes from
\* rationals is kept as the exact fraction [num, den] with den > 0.
None == <<>>
Some(v) == <<v>>
Tag(p, v) == [present |-> p, values |-> v]
R(n, d) == [num |-> n, den |-> d]

\* self.tags[tag_name].values if tag_name in self.tags, else None
get_tag_value(tag) == IF tag.present THEN Some(tag.values) ELSE None

\* a conversion that divides the seconds by 60, as it does the minutes
convert_to_degrees_seconds_by_60(value) ==
    IF Len(value) < 3 \/ \E i \in 1..3 : value[i].den = 0 THEN None
    ELSE LET d == value[1]
             m == value[2]
             sec == value[3]
         IN Some(R(d.num * m.den * sec.den * 60 + m.num * d.den * sec.den
                     + sec.num * d.den * m.den,
                   d.den * m.den * sec.den * 60))

\* a conversion that takes a component with a zero denominator as 0
convert_to_degrees_zero_for_bad(value) ==
    IF Len(value) < 3 THEN None
    ELSE LET fix(x) == IF x.den = 0 THEN R(0, 1) ELSE x
             d == fix(value[1])
             m == fix(value[2])
             sec == fix(value[3])
         IN Some(R(d.num * m.den * sec.den * 3600 + m.num * d.den * sec.den * 60
                     + sec.num * d.den * m.den,
                   d.den * m.den * sec.den * 3600))

\* _convert_to_degrees: d + m/60 + s/3600; None on a zero denominator
\* (ZeroDivisionError) or fewer than three components (IndexError)
convert_to_degrees(value) ==
    IF Len(value) < 3 \/ \E i \in 1..3 : value[i].den = 0 THEN None
    ELSE LET d == value[1]
             m == value[2]
             sec == value[3]
         IN Some(R(d.num * m.den * sec.den * 3600 + m.num * d.den * sec.den * 60
                     + sec.num * d.den * m.den,
                   d.den * m.den * sec.den * 3600))

\* _get_gps_latitude and _get_gps_longitude: [deg, ref]
get_gps_axis(tag, reftag) ==
    LET v == IF tag.present THEN tag.values ELSE <<>>
        ref == IF reftag.present /\ reftag.values # "" THEN reftag.values ELSE ""
    IN IF v # <<>> /\ ref # "" THEN [deg |-> convert_to_degrees(v), ref |-> ref]
       ELSE [deg |-> None, ref |-> ""]

\* -x for a float kept as a fraction
Neg(x) == R(0 - x.num, x.den)

\* a pairing that keeps whichever axis converted
gps_pair_each_axis(lat, lon) ==
    [lat |-> IF lat.deg # None /\ lat.ref # ""
             THEN Some(IF lat.ref = "S" THEN Neg(lat.deg[1]) ELSE lat.deg[1])
             ELSE None,
     lon |-> IF lon.deg # None /\ lon.ref # ""
             THEN Some(IF lon.ref = "W" THEN Neg(lon.deg[1]) ELSE lon.deg[1])
             ELSE None]

\* extract, lines 104-110: the signs, or no pair at all
gps_pair(lat, lon) ==
    IF lat.deg # None /\ lat.ref # "" /\ lon.deg # None /\ lon.ref # ""
    THEN [lat |-> Some(IF lat.ref = "S" THEN Neg(lat.deg[1]) ELSE lat.deg[1]),
          lon |-> Some(IF lon.ref = "W" THEN Neg(lon.deg[1]) ELSE lon.deg[1])]
    ELSE [lat |-> None, lon |-> None]

\* round(n / d) for n >= 0, d > 0: to the nearest integer, a tie to the even
RoundHalfEven(n, d) ==
    LET q == n \div d
        r2 == 2 * (n % d)
    IN IF r2 > d \/ (r2 = d /\ q % 2 = 1) THEN q + 1 ELSE q

\* str.strip() on the model names in use
strip(str) == IF str = " X " THEN "X" ELSE str

\* the first rational of a tag's values is there and has a denominator
HasRatio(v) == v # None /\ v[1] # <<>> /\ v[1][1].den # 0

\* a shutter_speed string whose round() takes a tie upwards
shutter_speed_of_half_up(x) ==
    IF x.num < x.den
    THEN IF x.num = 0 THEN [form |-> "Ns", n |-> 0]
         ELSE [form |-> "1/Ns", n |-> (2 * x.den + x.num) \div (2 * x.num)]
    ELSE [form |-> "Ns", n |-> x.num \div x.den]

\* the shutter_speed string: "1/<n>s", "<n>s", or the "0s" of the except clause
shutter_speed_of(x) ==
    IF x.num < x.den
    THEN IF x.num = 0 THEN [form |-> "Ns", n |-> 0]
         ELSE [form |-> "1/Ns", n |-> RoundHalfEven(x.den, x.num)]
    ELSE [form |-> "Ns", n |-> x.num \div x.den]

\* A date string "YYYY:MM:DD HH:MM:SS" is [day, time, sep]: the day as the
\* number YYYYMMDD, the time of day as a number, and the separator of the
\* date part.
DateStr(day, time) == [day |-> day, time |-> time, sep |-> ":"]

\* the empty string where a date string is expected
EmptyDate == [day |-> 0, time |-> 0, sep |-> ""]

\* extract, lines 88-95: the tag, else the file's modification time, else None
\* (mtime is None when os.path.getmtime raises)
date_taken_of(tags, mtime) ==
    LET v == get_tag_value(tags.DateTimeOriginal)
    IN IF v = None \/ v = Some(EmptyDate) THEN mtime ELSE v

\* ExifExtractor.extract once exifread has returned the tags
extract(file_path, tags, mtime) ==
    LET model == get_tag_value(tags.Model)
        gps == gps_pair(get_gps_axis(tags.GPSLatitude, tags.GPSLatitudeRef),
                        get_gps_axis(tags.GPSLongitude, tags.GPSLongitudeRef))
        altitude == get_tag_value(tags.GPSAltitude)
        iso == get_tag_value(tags.ISOSpeedRatings)
        aperture == get_tag_value(tags.FNumber)
        shutter == get_tag_value(tags.ExposureTime)
        focal == get_tag_value(tags.FocalLength)
    IN [date_taken |-> date_taken_of(tags, mtime),
        file_path |-> file_path,
        camera_model |-> IF model # None /\ model[1] # ""
                         THEN Some(strip(model[1])) ELSE model,
        gps_latitude |-> gps.lat,
        gps_longitude |-> gps.lon,
        gps_altitude |-> IF HasRatio(altitude)
                         THEN Some(RoundHalfEven(altitude[1][1].num,
                                                 altitude[1][1].den))
                         ELSE None,
        iso |-> IF iso # None /\ iso[1] # <<>> THEN Some(iso[1][1]) ELSE None,
        aperture |-> IF HasRatio(aperture)
                     THEN Some([unit |-> "f/", val |-> aperture[1][1]])
                     ELSE None,
        shutter_speed |-> IF HasRatio(shutter)
                          THEN Some(shutter_speed_of(shutter[1][1])) ELSE None,
        focal_length |-> IF HasRatio(focal)
                         THEN Some([unit |-> "mm", val |-> focal[1][1]])
                         ELSE None]

\* all(value is None for key, value in exif_data.items()
\*     if key not in ['file_path', 'date_taken'])
all_none(rec) ==
    /\ rec.camera_model = None
    /\ rec.gps_latitude = None /\ rec.gps_longitude = None
    /\ rec.gps_altitude = None /\ rec.iso = None
    /\ rec.aperture = None /\ rec.shutter_speed = None
    /\ rec.focal_length = None

\* the record process_file builds for a video
video_record(file_path, mtime) ==
    [date_taken |-> mtime, file_path |-> file_path,
     camera_model |-> Some("Video"),
     gps_latitude |-> None, gps_longitude |-> None, gps_altitude |-> None,
     iso |-> None, aperture |-> None, shutter_speed |-> None,
     focal_length |-> None]

\* process_file, lines 375-377
classify(rec) == IF all_none(rec) THEN "no_exif" ELSE "data"

\* process_file on a file of extension kind ext ("image", "video", "other");
\* opens tells whether open() and exifread succeed, mtime is None when
\* os.path.getmtime raises.  The result is [kind, file_path, data].
process_file_of(file_path, ext, opens, tags, mtime) ==
    IF ext = "image"
    THEN IF ~opens
         THEN [kind |-> "error", file_path |-> file_path, data |-> None]
         ELSE LET rec == extract(file_path, tags, mtime)
              IN [kind |-> classify(rec), file_path |-> file_path,
                  data |-> Some(rec)]
    ELSE IF ext = "video"
    THEN IF mtime = None
         THEN [kind |-> "error", file_path |-> file_path, data |-> None]
         ELSE [kind |-> "data", file_path |-> file_path,
               data |-> Some(video_record(file_path, mtime))]
    ELSE [kind |-> "none", file_path |-> 0, data |-> None]

\* ------------------------------------------------------------ MapGenerator
\* date_str[0:10].replace(':', '-') + date_str[10:]
normalize_date(date) == [date EXCEPT !.sep = "-"]

RECURSIVE ScaledDiv(_, _, _)
\* floor(n * 10^k / d) and the remainder, by long division (n >= 0, d > 0)
ScaledDiv(n, d, k) ==
    IF k = 0 THEN [q |-> n \div d, r |-> n % d]
    ELSE LET p == ScaledDiv(n, d, k - 1)
         IN [q |-> p.q * 10 + (p.r * 10) \div d, r |-> (p.r * 10) % d]

\* round(x, 6), as a whole number of millionths of a degree
round6(x) ==
    LET neg == x.num < 0
        p == ScaledDiv(IF neg THEN 0 - x.num ELSE x.num, x.den, 6)
        up == 2 * p.r > x.den \/ (2 * p.r = x.den /\ p.q % 2 = 1)
        m == IF up THEN p.q + 1 ELSE p.q
    IN IF neg THEN 0 - m ELSE m

\* the camera names in sorted order
CameraAlphabet == <<"Video", "X", "Y">>

\* sorted(set(loc['camera_model'] for loc in locations if loc['camera_model']))
camera_models_of(locations) ==
    SelectSeq(CameraAlphabet,
              LAMBDA m : \E k \in 1..Len(locations) :
                            locations[k].camera_model = Some(m))

\* camera_model_map.get(model): the 0-based place of the name, or None
camera_model_index(models, model) ==
    IF model # None /\ \E i \in 1..Len(models) : models[i] = model[1]
    THEN Some((CHOOSE i \in 1..Len(models) : models[i] = model[1]) - 1)
    ELSE None

\* a loop body without the zero/zero rule
location_tuple_keep_zero(models, loc) ==
    [date_taken |-> IF loc.date_taken # None
                    THEN Some(normalize_date(loc.date_taken[1])) ELSE None,
     gps_latitude |-> IF loc.gps_latitude # None
                      THEN Some(round6(loc.gps_latitude[1])) ELSE None,
     gps_longitude |-> IF loc.gps_longitude # None
                       THEN Some(round6(loc.gps_longitude[1])) ELSE None,
     camera_model_index |-> camera_model_index(models, loc.camera_model),
     file_path_web |-> loc.file_path]

\* _generate_html, the loop body: one row of get_photos to one payload tuple
location_tuple(models, loc) ==
    LET lat == IF loc.gps_latitude # None
               THEN Some(round6(loc.gps_latitude[1])) ELSE None
        lon == IF loc.gps_longitude # None
               THEN Some(round6(loc.gps_longitude[1])) ELSE None
        zero == lat = Some(0) /\ lon = Some(0)
    IN [date_taken |-> IF loc.date_taken # None
                       THEN Some(normalize_date(loc.date_taken[1])) ELSE None,
        gps_latitude |-> IF zero THEN None ELSE lat,
        gps_longitude |-> IF zero THEN None ELSE lon,
        camera_model_index |-> camera_model_index(models, loc.camera_model),
        file_path_web |-> loc.file_path]

\* processed_locations
processed_locations(locations) ==
    [k \in 1..Len(locations) |->
        location_tuple(camera_models_of(locations), locations[k])]

\* the columns get_photos selects from a stored record
photo_row(rec) ==
    [file_path |-> rec.file_path, gps_latitude |-> rec.gps_latitude,
     gps_longitude |-> rec.gps_longitude, camera_model |-> rec.camera_model,
     date_taken |-> rec.date_taken]

\* ----------------------------------------- one file, from tags to payload
AllAbsent ==
    [DateTimeOriginal |-> Tag(FALSE, EmptyDate), Model |-> Tag(FALSE, ""),
     GPSLatitude |-> Tag(FALSE, <<>>), GPSLatitudeRef |-> Tag(FALSE, ""),
     GPSLongitude |-> Tag(FALSE, <<>>), GPSLongitudeRef |-> Tag(FALSE, ""),
     GPSAltitude |-> Tag(FALSE, <<>>), ISOSpeedRatings |-> Tag(FALSE, <<>>),
     FNumber |-> Tag(FALSE, <<>>), ExposureTime |-> Tag(FALSE, <<>>),
     FocalLength |-> Tag(FALSE, <<>>)]

DateTags == {Tag(FALSE, EmptyDate), Tag(TRUE, EmptyDate), Tag(TRUE, DateStr(2, 5))}

\* a coordinate tag: missing, empty, two components only, a zero denominator,
\* 0 deg 0' 0", 1 deg 30' 0", 0 deg 0' 0.001", and 3/2 deg 45/2' 18/5"
GpsTags ==
    {Tag(FALSE, <<>>), Tag(TRUE, <<>>),
     Tag(TRUE, <<R(3, 2), R(45, 2), R(18, 5)>>),
     Tag(TRUE, <<R(1, 1), R(30, 1)>>),
     Tag(TRUE, <<R(1, 0), R(0, 1), R(0, 1)>>),
     Tag(TRUE, <<R(0, 1), R(0, 1), R(0, 1)>>),
     Tag(TRUE, <<R(1, 1), R(30, 1), R(0, 1)>>),
     Tag(TRUE, <<R(0, 1), R(0, 1), R(1, 1000)>>)}

LatRefTags == {Tag(FALSE, ""), Tag(TRUE, ""), Tag(TRUE, "N"), Tag(TRUE, "S")}
LonRefTags == {Tag(FALSE, ""), Tag(TRUE, ""), Tag(TRUE, "E"), Tag(TRUE, "W")}

\* the other tags: at most one of them is present
OtherTags ==
    {AllAbsent}
    \cup {[AllAbsent EXCEPT !.Model = Tag(TRUE, v)] : v \in {"", "X", " X "}}
    \cup {[AllAbsent EXCEPT !.GPSAltitude = Tag(TRUE, <<v>>)] :
             v \in {R(1, 0), R(5, 2)}}
    \cup {[AllAbsent EXCEPT !.ISOSpeedRatings = Tag(TRUE, v)] :
             v \in {<<>>, <<100>>}}
    \cup {[AllAbsent EXCEPT !.FNumber = Tag(TRUE, <<v>>)] :
             v \in {R(1, 0), R(5, 2)}}
    \cup {[AllAbsent EXCEPT !.ExposureTime = Tag(TRUE, <<v>>)] :
             v \in {R(1, 0), R(0, 1), R(1, 4), R(1, 2), R(2, 5),
                    R(2, 1), R(5, 2)}}
    \cup {[AllAbsent EXCEPT !.FocalLength = Tag(TRUE, <<v>>)] :
             v \in {R(1, 0), R(5, 2)}}

TagSets ==
    {[o EXCEPT !.DateTimeOriginal = d, !.GPSLatitude = la,
               !.GPSLatitudeRef = lar, !.GPSLongitude = lo,
               !.GPSLongitudeRef = lor] :
        o \in OtherTags, d \in DateTags, la \in GpsTags, lar \in LatRefTags,
        lo \in GpsTags, lor \in LonRefTags}

\* the file's modification time, None when os.path.getmtime raises
Mtimes == {None, Some(DateStr(1, 3))}

\* the path of the one file
ThePath == 1

\* the store and handler a scan's loop starts with: PhotoScanner.__init__
\* has created the table, get_all_paths has closed the connection
StartCtx ==
    LET w == create_table(NewHandler, [table |-> FALSE, rows |-> {}, nextId |-> 1])
    IN Ctx(close_connection(w.h), w.db, 0, 0, 0)

NoPayload == <<>>

InitData ==
    /\ disk = {}
    /\ dbOk \in BOOLEAN
    /\ db = [table |-> FALSE, rows |-> {}, nextId |-> 1]
    /\ h = NewHandler
    /\ pc = "idle"
    /\ scan = NoScan
    /\ stop_set = FALSE
    /\ cl = NoClean
    /\ ret = NoSummary
    /\ dbret = "none"
    /\ hist = NoRun
    /\ budget = [ops |-> 0, changes |-> 0]
    /\ qs = NoQs
    /\ mg = NoMg
    /\ gui = NoGui
    /\ \E ext \in {"image", "video", "other"}, opens \in BOOLEAN,
          tags \in TagSets, mtime \in Mtimes :
          /\ (ext # "image" \/ ~opens) => tags = AllAbsent
          /\ ext # "image" => opens
          /\ ex = [stage |-> "file", ext |-> ext, opens |-> opens,
                   tags |-> tags, mtime |-> mtime,
                   result |-> [kind |-> "none", file_path |-> 0, data |-> None],
                   c |-> StartCtx, payload |-> NoPayload]

\* process_file(file_path) in a worker or in the sequential loop
ProcessFile ==
    /\ ex.stage = "file"
    /\ ex' = [ex EXCEPT !.stage = "result",
                        !.result = process_file_of(ThePath, ex.ext, ex.opens,
                                                   ex.tags, ex.mtime)]
    /\ UNCHANGED <<disk, dbOk, db, h, pc, scan, stop_set, cl, ret, dbret, hist,
                   budget, qs, mg, gui>>

\* the loop body takes the result
HandleFile ==
    /\ ex.stage = "result"
    /\ ex' = [ex EXCEPT !.stage = "handled",
                        !.c = HandleResultST(ex.c, ex.result)]
    /\ UNCHANGED <<disk, dbOk, db, h, pc, scan, stop_set, cl, ret, dbret, hist,
                   budget, qs, mg, gui>>

\* the final flush_buffer of the scan
FlushFile ==
    /\ ex.stage = "handled"
    /\ LET w == flush_buffer(ex.c.h, ex.c.db)
       IN ex' = [ex EXCEPT !.stage = "flushed", !.c.h = w.h, !.c.db = w.db]
    /\ UNCHANGED <<disk, dbOk, db, h, pc, scan, stop_set, cl, ret, dbret, hist,
                   budget, qs, mg, gui>>

\* get_photos without filters and _generate_html's loop over its rows: the
\* stored row of the file becomes a payload tuple
MapFile ==
    /\ ex.stage = "flushed"
    /\ ThePath \in StoredPaths(ex.c.db)
    /\ ex' = [ex EXCEPT !.stage = "mapped",
                        !.payload = processed_locations(
                                        <<photo_row(ex.result.data[1])>>)]
    /\ UNCHANGED <<disk, dbOk, db, h, pc, scan, stop_set, cl, ret, dbret, hist,
                   budget, qs, mg, gui>>

NextData == ProcessFile \/ HandleFile \/ FlushFile \/ MapFile

DataSpec == InitData /\ [][NextData]_vars

\* -------------------------------------------------- get_photos, count_photos
\* rows a store holds at most
MaxRows == 2

\* a file path is [stem, ext]: what precedes the extension, and the extension
\* as written in the file's name
Exts == {".jpg", ".JPG", ".png"}

\* ASCII lower case, as SQLite's LIKE compares
Lower(e) == IF e = ".JPG" THEN ".jpg" ELSE e

\* file_path LIKE '%' || ext
like_suffix(file_path, ext) == Lower(file_path.ext) = Lower(ext)

\* a <= b for two date strings of the storage format, compared as text
DateLE(a, b) == a.day < b.day \/ (a.day = b.day /\ a.time <= b.time)

\* date_taken BETWEEN start AND end; a NULL date_taken is in no range
date_between(date, start, end) ==
    date # None /\ DateLE(start, date[1]) /\ DateLE(date[1], end)

\* a WHERE clause that leaves the extension condition out
where_without_extensions(row, args) ==
    /\ (args.start_date # None /\ args.end_date # None) =>
          date_between(row.date_taken, args.start_date[1], args.end_date[1])
    /\ args.camera_filter # None => row.camera_model = args.camera_filter

\* the WHERE clause get_photos builds (250-265)
where_get_photos(row, args) ==
    /\ (args.start_date # None /\ args.end_date # None) =>
          date_between(row.date_taken, args.start_date[1], args.end_date[1])
    /\ args.camera_filter # None => row.camera_model = args.camera_filter
    /\ args.allowed_extensions # None =>
          \E k \in 1..Len(args.allowed_extensions[1]) :
              like_suffix(row.file_path, args.allowed_extensions[1][k])

\* the WHERE clause count_photos builds (285-300)
where_count_photos(row, args) ==
    /\ (args.start_date # None /\ args.end_date # None) =>
          date_between(row.date_taken, args.start_date[1], args.end_date[1])
    /\ args.camera_filter # None => row.camera_model = args.camera_filter
    /\ args.allowed_extensions # None =>
          \E k \in 1..Len(args.allowed_extensions[1]) :
              like_suffix(row.file_path, args.allowed_extensions[1][k])

\* ORDER BY date_taken: NULL first, then ascending
DateOrdered(a, b) ==
    a.date_taken = None \/ (b.date_taken # None
                              /\ DateLE(a.date_taken[1], b.date_taken[1]))

\* the orders in which get_photos may return the selected rows: ascending by
\* date_taken, rows of equal date in any order
get_photos_results(rows, args) ==
    LET sel == {photo_row(r) : r \in {q \in rows : where_get_photos(q, args)}}
        n == Cardinality(sel)
    IN {sq \in [1..n -> sel] :
           /\ \A i \in 1..n : \A j \in 1..n : i # j => sq[i] # sq[j]
           /\ \A i \in 1..n : \A j \in 1..n :
                 i < j => DateOrdered(sq[i], sq[j])}

\* SELECT COUNT(*) with count_photos's conditions
count_photos(rows, args) == Cardinality({q \in rows : where_count_photos(q, args)})

\* the rows a store can hold: row k has the path of stem k
RowChoices(k) ==
    {[file_path |-> [stem |-> k, ext |-> e], date_taken |-> d,
      camera_model |-> c, gps_latitude |-> None, gps_longitude |-> None] :
        e \in Exts,
        d \in {None, Some(DateStr(1, 0)), Some(DateStr(2, 86399)),
               Some(DateStr(10001, 5))},
        c \in {None, Some("X"), Some("Y")}}

RECURSIVE Stores(_)
\* the row sets of up to n rows
Stores(n) ==
    IF n = 0 THEN {{}}
    ELSE Stores(n - 1)
         \cup {st \cup {r} : st \in {t \in Stores(n - 1) : Cardinality(t) = n - 1},
                             r \in RowChoices(n)}

\* the arguments generate_map_non_interactive passes: both dates in the
\* storage format or neither, a camera name or None, a list of extensions
\* or None
QueryArgs ==
    {[start_date |-> rg[1], end_date |-> rg[2], camera_filter |-> c,
      allowed_extensions |-> x] :
        rg \in {<<None, None>>,
                <<Some(DateStr(1, 0)), Some(DateStr(2, 86399))>>},
        c \in {None, Some("X")},
        x \in {None, Some(<<".jpg">>), Some(<<".jpg", ".png">>)}}

InitQuery ==
    /\ disk = {}
    /\ dbOk \in BOOLEAN
    /\ db = [table |-> FALSE, rows |-> {}, nextId |-> 1]
    /\ h = NewHandler
    /\ pc = "idle"
    /\ scan = NoScan
    /\ stop_set = FALSE
    /\ cl = NoClean
    /\ ret = NoSummary
    /\ dbret = "none"
    /\ hist = NoRun
    /\ budget = [ops |-> 0, changes |-> 0]
    /\ ex = NoEx
    /\ mg = NoMg
    /\ gui = NoGui
    /\ \E table \in BOOLEAN, rows \in Stores(MaxRows), args \in QueryArgs :
          /\ ~table => rows = {}
          /\ qs = [stage |-> "ready", table |-> table, rows |-> rows,
                   args |-> args,
                   got |-> "no", photos |-> <<>>,
                   counted |-> "no", count |-> 0]

\* get_photos(start_date, end_date, camera_filter, allowed_extensions):
\* [] without a connection, the exception of the SELECT without the table
GetPhotos ==
    /\ qs.stage = "ready" /\ qs.got = "no"
    /\ IF ~dbOk THEN qs' = [qs EXCEPT !.got = "returned", !.photos = <<>>]
       ELSE IF ~qs.table THEN qs' = [qs EXCEPT !.got = "raised"]
       ELSE \E sq \in get_photos_results(qs.rows, qs.args) :
               qs' = [qs EXCEPT !.got = "returned", !.photos = sq]
    /\ UNCHANGED <<disk, dbOk, db, h, pc, scan, stop_set, cl, ret, dbret, hist,
                   budget, ex, mg, gui>>

\* count_photos with the same arguments on the same store
CountPhotos ==
    /\ qs.stage = "ready" /\ qs.counted = "no"
    /\ IF ~dbOk THEN qs' = [qs EXCEPT !.counted = "returned", !.count = 0]
       ELSE IF ~qs.table THEN qs' = [qs EXCEPT !.counted = "raised"]
       ELSE qs' = [qs EXCEPT !.counted = "returned",
                             !.count = count_photos(qs.rows, qs.args)]
    /\ UNCHANGED <<disk, dbOk, db, h, pc, scan, stop_set, cl, ret, dbret, hist,
                   budget, ex, mg, gui>>

NextQuery == GetPhotos \/ CountPhotos

QuerySpec == InitQuery /\ [][NextQuery]_vars


\* ------------------------------------------------------- map generation
\* A date string a caller types is [form, day, sep]: "" is blank, a string
\* strptime(.., '%Y-%m-%d') parses is ymd, any other string is bad.
Blank == [form |-> "blank", day |-> 0, sep |-> ""]
Ymd(day) == [form |-> "ymd", day |-> day, sep |-> "-"]
BadDate == [form |-> "bad", day |-> 0, sep |-> "/"]

\* bool(s) for an argument that is None or a string
truthy(v) == v # None /\ v[1].form # "blank"

\* datetime.datetime.strptime(s, '%Y-%m-%d') returns; it raises ValueError
\* otherwise
strptime_ok(s) == s.form = "ymd"

\* start_date.replace('-', ':') + " 00:00:00"
start_db_format(s) == [day |-> s.day, time |-> 0, sep |-> ":"]

\* end_date.replace('-', ':') + " 23:59:59"
end_db_format(s) == [day |-> s.day, time |-> 86399, sep |-> ":"]

\* date.split(' ')[0].replace(':', '-')
day_key(date) == [day |-> date.day, sep |-> "-"]

\* d.split('-')[0]
year_of(key) == key.day \div 10000

\* a SELECT that reads only the rows get_photos returned
heatmap_rows_filtered(rows, locations) ==
    {r \in rows : \E k \in 1..Len(locations) : locations[k] = photo_row(r)}

\* the rows run's own SELECT reads: every row of the store, whatever rows
\* get_photos returned
heatmap_rows(rows, locations) == rows

\* Counter(... for date in dates) over SELECT date_taken FROM exif_data
\* WHERE date_taken IS NOT NULL
date_counts(rows) ==
    LET dated == {r \in rows : r.date_taken # None}
        keys == {day_key(r.date_taken[1]) : r \in dated}
    IN [k \in keys |->
          Cardinality({r \in dated : day_key(r.date_taken[1]) = k})]

\* [{'date': date, 'count': count} for date, count in date_counts.items()]
photo_counts_data(dc) == {[date |-> k, count |-> dc[k]] : k \in DOMAIN dc}

RECURSIVE SortedReverse(_)
\* sorted(list(S), reverse=True)
SortedReverse(S) ==
    IF S = {} THEN <<>>
    ELSE LET m == CHOOSE x \in S : \A y \in S : y <= x
         IN <<m>> \o SortedReverse(S \ {m})

\* sorted(list(set(d.split('-')[0] for d in date_counts.keys())), reverse=True)
years_of(dc) == SortedReverse({year_of(k) : k \in DOMAIN dc})

\* the six placeholder tokens of a template
Tokens == {"__KEYS_JSON__", "__CAMERAS_JSON__", "__LOCATIONS_JSON__",
           "__HEATMAPS__", "__PHOTO_COUNTS_JSON__", "__YEARS_JSON__"}

\* keys of _generate_html
Keys == <<"date_taken", "gps_latitude", "gps_longitude", "camera_model",
          "file_path_web">>

\* A document is [gen, tokens, ...]: the tokens still in its text, and the
\* value put in the place of each token replaced.  The template's text:
TemplateContent ==
    [gen |-> "template", tokens |-> Tokens, keys |-> None, cameras |-> None,
     locations |-> None, heatmaps |-> None, photo_counts |-> None,
     years |-> None]

\* an output file written by an earlier, successful generation
PreviousOutput ==
    [gen |-> "previous", tokens |-> {}, keys |-> Some(Keys),
     cameras |-> Some(<<>>), locations |-> Some(<<>>), heatmaps |-> Some(<<>>),
     photo_counts |-> Some({}), years |-> Some(<<>>)]

\* _generate_html once the template was read: the three replace calls
generate_html(locations) ==
    [TemplateContent EXCEPT
        !.gen = "generated",
        !.tokens = @ \ {"__KEYS_JSON__", "__CAMERAS_JSON__", "__LOCATIONS_JSON__"},
        !.keys = Some(Keys),
        !.cameras = Some(camera_models_of(locations)),
        !.locations = Some(processed_locations(locations))]

\* run, lines 566-584: the histogram of the store and its three replace calls
heatmap_html(html, dc) ==
    [html EXCEPT
        !.tokens = @ \ {"__HEATMAPS__", "__PHOTO_COUNTS_JSON__", "__YEARS_JSON__"},
        !.heatmaps = Some(years_of(dc)),
        !.photo_counts = Some(photo_counts_data(dc)),
        !.years = Some(years_of(dc))]

\* the rows a store can hold in MapSpec: those of RowChoices with the
\* extensions and cameras below
MapRowChoices(k) ==
    {r \in RowChoices(k) : /\ r.file_path.ext \in {".jpg", ".png"}
                           /\ r.camera_model \in {None, Some("X")}}

RECURSIVE MapStores(_)
\* the row sets of up to n such rows
MapStores(n) ==
    IF n = 0 THEN {{}}
    ELSE MapStores(n - 1)
         \cup {st \cup {r} :
                 st \in {t \in MapStores(n - 1) : Cardinality(t) = n - 1},
                 r \in MapRowChoices(n)}

\* what a caller types or ticks
UserDates == {Blank, Ymd(1), Ymd(2), BadDate}

\* the requests: generate_map.py passes no filter, main_menu passes the two
\* strings typed, the GUI reads its date check box, its two entries and its
\* extension check boxes (its camera check box is left unticked)
Requests ==
    {[entry |-> "script", date_filter |-> FALSE, start |-> Blank,
      end |-> Blank, extensions |-> <<>>]}
    \cup {[entry |-> "menu", date_filter |-> FALSE, start |-> s, end |-> e,
           extensions |-> <<>>] : s \in UserDates, e \in UserDates}
    \cup {[entry |-> "gui", date_filter |-> FALSE, start |-> Blank,
           end |-> Blank, extensions |-> x] : x \in {<<>>, <<".jpg">>}}
    \cup {[entry |-> "gui", date_filter |-> TRUE, start |-> s, end |-> e,
           extensions |-> x] :
             s \in UserDates, e \in UserDates, x \in {<<>>, <<".jpg">>}}

TemplateStates == {"ok", "missing", "unreadable", "undecodable"}

NoArgs ==
    [start_date |-> None, end_date |-> None, camera_filter |-> None,
     allowed_extensions |-> None]

InitMap ==
    /\ disk = {}
    /\ dbOk \in BOOLEAN
    /\ db = [table |-> FALSE, rows |-> {}, nextId |-> 1]
    /\ h = NewHandler
    /\ pc = "idle"
    /\ scan = NoScan
    /\ stop_set = FALSE
    /\ cl = NoClean
    /\ ret = NoSummary
    /\ dbret = "none"
    /\ hist = NoRun
    /\ budget = [ops |-> 0, changes |-> 0]
    /\ ex = NoEx
    /\ qs = NoQs
    /\ gui = NoGui
    /\ \E req \in Requests, table \in BOOLEAN, rows \in MapStores(MaxRows),
          template \in TemplateStates, prior \in {None, Some(PreviousOutput)} :
          /\ (~table \/ ~dbOk) => rows = {}
          /\ ~dbOk => ~table
          /\ mg = [stage |-> "request", req |-> req, table |-> table,
                   rows |-> rows, template |-> template, prior |-> prior,
                   out |-> prior, args |-> NoArgs, queries |-> <<>>,
                   count |-> 0, locations |-> <<>>, html |-> None,
                   msgs |-> {}, outcome |-> "running"]

MapUnchanged ==
    UNCHANGED <<disk, dbOk, db, h, pc, scan, stop_set, cl, ret, dbret, hist,
                budget, ex, qs, gui>>

\* the call returns, was turned down by the caller's checks, or raised
MapDone(outcome, msgs) ==
    [mg EXCEPT !.stage = "done", !.outcome = outcome, !.msgs = @ \cup msgs]

\* generate_map.py: generate_map_non_interactive(db_path, template, output)
ScriptGenerateMap ==
    /\ mg.stage = "request" /\ mg.req.entry = "script"
    /\ mg' = [mg EXCEPT !.stage = "called", !.args = NoArgs]
    /\ MapUnchanged

\* main_menu, choice '2': the two strings typed go to the call as they are
MenuGenerateMap ==
    /\ mg.stage = "request" /\ mg.req.entry = "menu"
    /\ mg' = [mg EXCEPT !.stage = "called",
                        !.args = [NoArgs EXCEPT
                                    !.start_date = Some(mg.req.start),
                                    !.end_date = Some(mg.req.end)]]
    /\ MapUnchanged

\* PhotoManagerGUI.generate_map.  With the date check box ticked, strptime
\* on the start entry raises ValueError for a string that does not parse;
\* for one that parses, the next line's datetime.strptime raises
\* AttributeError (datetime is the module), which no except clause takes.
GuiGenerateMap ==
    /\ mg.stage = "request" /\ mg.req.entry = "gui"
    /\ IF mg.req.extensions = <<>>
       THEN mg' = MapDone("rejected", {"Please select at least one file extension to filter."})
       ELSE IF mg.req.date_filter
       THEN IF ~strptime_ok(mg.req.start)
            THEN mg' = MapDone("rejected", {"Invalid date format. Please use YYYY-MM-DD."})
            ELSE mg' = MapDone("raised", {"AttributeError"})
       ELSE mg' = [mg EXCEPT !.stage = "called",
                             !.args = [NoArgs EXCEPT !.allowed_extensions =
                                                        Some(mg.req.extensions)]]
    /\ MapUnchanged

\* generate_map_non_interactive, lines 764-774: the two dates are parsed when
\* both are given; [ok, start, end] with the bounds in the storage format
validated(args) ==
    IF truthy(args.start_date) /\ truthy(args.end_date)
    THEN IF strptime_ok(args.start_date[1]) /\ strptime_ok(args.end_date[1])
         THEN [ok |-> TRUE, start |-> Some(start_db_format(args.start_date[1])),
               end |-> Some(end_db_format(args.end_date[1]))]
         ELSE [ok |-> FALSE, start |-> None, end |-> None]
    ELSE [ok |-> TRUE, start |-> None, end |-> None]

\* a test that never finds the result empty
nothing_to_map_never(count) == FALSE

\* if count == 0 (line 780)
nothing_to_map(count) == count = 0

\* generate_map_non_interactive up to the construction of MapGenerator:
\* validation, count_photos, get_photos
GenerateMapNonInteractive ==
    /\ mg.stage = "called"
    /\ LET v == validated(mg.args)
           qargs == [start_date |-> v.start, end_date |-> v.end,
                     camera_filter |-> mg.args.camera_filter,
                     allowed_extensions |-> mg.args.allowed_extensions]
           count == IF dbOk THEN count_photos(mg.rows, qargs) ELSE 0
       IN IF ~v.ok
          THEN mg' = MapDone("returned", {"Invalid date format. Aborting."})
          ELSE IF dbOk /\ ~mg.table
          THEN mg' = [MapDone("raised", {"OperationalError"})
                        EXCEPT !.queries = <<qargs>>]
          ELSE IF nothing_to_map(count)
          THEN mg' = [MapDone("returned", {"No photos to map. Aborting."})
                        EXCEPT !.queries = <<qargs>>, !.count = 0]
          ELSE \E sq \in get_photos_results(mg.rows, qargs) :
                  mg' = [mg EXCEPT !.stage = "run", !.queries = <<qargs, qargs>>,
                                   !.count = count, !.locations = sq]
    /\ MapUnchanged

\* open(template_file, 'r', encoding='utf-8') and f.read() under
\* except FileNotFoundError
read_template(template) ==
    IF template = "ok" THEN "read"
    ELSE IF template = "missing" THEN "not found"
    ELSE "raised"

\* MapGenerator.run, lines 559-564, with _generate_html
MapRunGenerateHtml ==
    /\ mg.stage = "run"
    /\ IF mg.locations = <<>>
       THEN mg' = MapDone("returned", {"No data found in the database."})
       ELSE LET t == read_template(mg.template)
            IN IF t = "read"
               THEN mg' = [mg EXCEPT !.stage = "heatmap",
                                     !.html = Some(generate_html(mg.locations))]
               ELSE IF t = "not found"
               THEN mg' = [mg EXCEPT !.stage = "heatmap", !.html = None,
                              !.msgs = @ \cup {"Error: Template file not found"}]
               ELSE mg' = MapDone("raised", {"OSError or UnicodeDecodeError"})
    /\ MapUnchanged

\* run's except clause: the document stays as _generate_html returned it
after_heatmap_failure(html) == html

\* MapGenerator.run, lines 566-586: the store is read again, without the
\* filters; any exception, that of None.replace included, is printed
MapRunHeatmap ==
    /\ mg.stage = "heatmap"
    /\ \E read_ok \in BOOLEAN :
          IF read_ok /\ mg.html # None
          THEN mg' = [mg EXCEPT
                        !.stage = "write",
                        !.html = Some(heatmap_html(mg.html[1],
                                   date_counts(heatmap_rows(mg.rows, mg.locations))))]
          ELSE mg' = [mg EXCEPT !.stage = "write",
                                !.html = after_heatmap_failure(mg.html),
                                !.msgs = @ \cup {"Error generating heatmap"}]
    /\ MapUnchanged

\* MapGenerator.run, lines 588-595: open(output_html_file, 'w') and write
MapRunWrite ==
    /\ mg.stage = "write"
    /\ IF mg.html # None
       THEN \E write_ok \in BOOLEAN :
               IF write_ok
               THEN mg' = [MapDone("returned", {"Successfully generated file"})
                             EXCEPT !.out = mg.html]
               ELSE mg' = MapDone("returned", {"Error writing to file"})
       ELSE mg' = MapDone("returned", {})
    /\ MapUnchanged

NextMap ==
    \/ ScriptGenerateMap
    \/ MenuGenerateMap
    \/ GuiGenerateMap
    \/ GenerateMapNonInteractive
    \/ MapRunGenerateHtml
    \/ MapRunHeatmap
    \/ MapRunWrite

MapSpec == InitMap /\ [][NextMap]_vars

\* ------------------------------------------------------------------ GUI
\* threading.Event objects one GUI session creates at most
MaxScans == 2
\* background jobs other than scans (camera-model fetch, map generation,
\* clean-up) one session starts at most
MaxJobs == 2
\* times the camera check box is toggled at most
MaxToggles == 2

JobKinds == {"camera", "map", "clean"}

\* scan_button as create_widgets and enable_buttons configure it
StartButton ==
    [text |-> "Start Scanning", command |-> "start_scan", state |-> "normal"]

\* PhotoManagerGUI.__init__: no scan, no stop_event, an empty queue, and the
\* first schedule_update_counts pending.  A directory is in the list.
\* events[k] is the flag of the k-th threading.Event made; stop_event is 0
\* for None, else the number of the Event; scans holds the Events of the
\* scan threads alive; jobs counts the other run_threaded_task threads alive.
InitGuiState ==
    [stage |-> "running", scanning |-> FALSE, stop_event |-> 0,
     events |-> <<>>, scan_button |-> StartButton, job_buttons |-> "normal",
     scans |-> {}, jobs |-> [k \in JobKinds |-> 0], jobs_started |-> 0,
     queue |-> <<>>, camera_filter_var |-> FALSE, camera_values |-> FALSE,
     toggles |-> 0, counts_after |-> TRUE, count_threads |-> 0]

InitGui ==
    /\ disk = {}
    /\ dbOk = TRUE
    /\ db = [table |-> FALSE, rows |-> {}, nextId |-> 1]
    /\ h = NewHandler
    /\ pc = "idle"
    /\ scan = NoScan
    /\ stop_set = FALSE
    /\ cl = NoClean
    /\ ret = NoSummary
    /\ dbret = "none"
    /\ hist = NoRun
    /\ budget = [ops |-> 0, changes |-> 0]
    /\ ex = NoEx
    /\ qs = NoQs
    /\ mg = NoMg
    /\ gui = InitGuiState

GuiUnchanged ==
    UNCHANGED <<disk, dbOk, db, h, pc, scan, stop_set, cl, ret, dbret, hist,
                budget, ex, qs, mg>>

\* enable_buttons
enable_buttons(g) ==
    [g EXCEPT !.scanning = FALSE, !.scan_button = StartButton,
              !.job_buttons = "normal"]

\* disable_buttons: the scan button is not touched
disable_buttons(g) == [g EXCEPT !.job_buttons = "disabled"]

\* run_threaded_task for a job other than a scan
run_threaded_task(g, kind) ==
    [disable_buttons(g) EXCEPT !.jobs[kind] = @ + 1, !.jobs_started = @ + 1]

\* start_scan, the scan button's command while it reads "Start Scanning"
GuiStartScan ==
    /\ gui.stage = "running"
    /\ gui.scan_button.state = "normal"
    /\ gui.scan_button.command = "start_scan"
    /\ Len(gui.events) < MaxScans
    /\ LET e == Len(gui.events) + 1
       IN gui' = [disable_buttons(gui) EXCEPT
                     !.scanning = TRUE,
                     !.scan_button = [@ EXCEPT !.text = "Stop Scanning",
                                               !.command = "stop_scan"],
                     !.events = Append(@, FALSE),
                     !.stop_event = e,
                     !.scans = @ \cup {e}]
    /\ GuiUnchanged

\* stop_scan, the scan button's command while it reads "Stop Scanning"
GuiStopScan ==
    /\ gui.stage = "running"
    /\ gui.scan_button.state = "normal"
    /\ gui.scan_button.command = "stop_scan"
    /\ gui' = IF gui.stop_event # 0
              THEN [gui EXCEPT !.events[gui.stop_event] = TRUE,
                               !.scan_button = [@ EXCEPT !.state = "disabled",
                                                         !.text = "Stopping..."]]
              ELSE gui
    /\ GuiUnchanged

\* the camera check box: toggle_camera_filter, and schedule_update_counts
\* by the variable's write trace
GuiToggleCameraFilter ==
    /\ gui.stage = "running"
    /\ gui.toggles < MaxToggles
    /\ LET on == ~gui.camera_filter_var
           g == [gui EXCEPT !.camera_filter_var = on, !.toggles = @ + 1,
                            !.counts_after = TRUE]
       IN IF on /\ ~gui.camera_values
          THEN /\ gui.jobs_started < MaxJobs
               /\ gui' = run_threaded_task(g, "camera")
          ELSE gui' = g
    /\ GuiUnchanged

\* generate_map and clean_db, when their checks and the confirmation pass
GuiStartJob ==
    /\ gui.stage = "running"
    /\ gui.job_buttons = "normal"
    /\ gui.jobs_started < MaxJobs
    /\ \E kind \in {"map", "clean"} : gui' = run_threaded_task(gui, kind)
    /\ GuiUnchanged

\* a scan thread ends, having seen its stop_event set or not; signal_end
\* puts JOB_DONE in the queue
GuiScanThreadEnds ==
    /\ gui.stage = "running"
    /\ \E e \in gui.scans :
          gui' = [gui EXCEPT !.scans = @ \ {e},
                             !.queue = Append(@, "JOB_DONE")]
    /\ GuiUnchanged

\* another job's thread ends; populate_camera_models may have set the
\* combo box's values
GuiJobThreadEnds ==
    /\ gui.stage = "running"
    /\ \E kind \in JobKinds :
          /\ gui.jobs[kind] > 0
          /\ \E found \in BOOLEAN :
                gui' = [gui EXCEPT
                          !.jobs[kind] = @ - 1,
                          !.queue = Append(@, "JOB_DONE"),
                          !.camera_values = @ \/ (kind = "camera" /\ found)]
    /\ GuiUnchanged

\* do_update, 500 ms after the last schedule_update_counts
GuiDoUpdateCounts ==
    /\ gui.stage = "running"
    /\ gui.counts_after /\ gui.count_threads = 0
    /\ gui' = [gui EXCEPT !.counts_after = FALSE, !.count_threads = @ + 1]
    /\ GuiUnchanged

\* _update_counts_task puts its UPDATE_COUNTS tuple in the queue
GuiCountThreadEnds ==
    /\ gui.stage = "running"
    /\ gui.count_threads > 0
    /\ gui' = [gui EXCEPT !.count_threads = @ - 1,
                          !.queue = Append(@, "UPDATE_COUNTS")]
    /\ GuiUnchanged

\* process_queue: every message waiting is taken; JOB_DONE calls
\* enable_buttons and schedule_update_counts
GuiProcessQueue ==
    /\ gui.stage = "running"
    /\ gui.queue # <<>>
    /\ gui' = IF \E k \in 1..Len(gui.queue) : gui.queue[k] = "JOB_DONE"
              THEN [enable_buttons(gui) EXCEPT !.queue = <<>>,
                                               !.counts_after = TRUE]
              ELSE [gui EXCEPT !.queue = <<>>]
    /\ GuiUnchanged

NextGui ==
    \/ GuiStartScan
    \/ GuiStopScan
    \/ GuiToggleCameraFilter
    \/ GuiStartJob
    \/ GuiScanThreadEnds
    \/ GuiJobThreadEnds
    \/ GuiDoUpdateCounts
    \/ GuiCountThreadEnds
    \/ GuiProcessQueue

GuiSpec == InitGui /\ [][NextGui]_vars

\* ================================================================ claims
ScanReturned == pc = "done" /\ ret.op = "scan"

\* the scan at hand met no change on disk, no cancellation, no storage failure
ScanUndisturbed == scan.quiet /\ ~scan.cancelled /\ scan.opened

\* a scan that follows an undisturbed scan of the same roots, with nothing
\* in between, and is itself undisturbed
SecondOfTwo ==
    /\ pc = "done" /\ ret.op \in {"scan", "scan_nothing"}
    /\ hist.set /\ hist.roots = scan.roots
    /\ ScanUndisturbed

\* C1: a scan repeated over the same roots, with the disk unchanged and no
\* cancellation or storage failure, leaves the row count and the set of
\* stored paths as the first scan left them.
C1_RescanIdempotent ==
    SecondOfTwo =>
        /\ StoredPaths(db) = hist.paths
        /\ Cardinality(db.rows) = hist.count

\* the second scan had files to work on (the ones that failed before)
C1_Witness == SecondOfTwo /\ ret.op = "scan" /\ hist.count > 0

\* C2: no two rows of the store have the same file_path, whatever scans
\* (overlapping or repeated roots included), flushes and cleanups ran; a
\* batch holding an already stored path is written without an error, the
\* buffer being empty afterwards.
C2_UniquePaths ==
    /\ \A r1 \in db.rows : \A r2 \in db.rows :
           r1.file_path = r2.file_path => r1 = r2
    /\ (ScanReturned /\ scan.opened) => h.buffer = <<>>

\* a path was handed to the store twice and the scan has flushed
C2_Witness ==
    /\ ScanReturned /\ scan.opened
    /\ \E i \in 1..Len(h.handed) : \E j \in 1..Len(h.handed) :
           i < j /\ h.handed[i].file_path = h.handed[j].file_path
    /\ \E r \in db.rows : \E i \in 1..Len(h.handed) :
           r.file_path = h.handed[i].file_path

CleanReturned == pc = "done" /\ ret.op = "clean"

\* the ids of the rows the cleanup saw missing, by its own log
LoggedMissing == {cl.log[k].id : k \in {j \in 1..Len(cl.log) : ~cl.log[j].existed}}

LoggedPresent == {cl.log[k].id : k \in {j \in 1..Len(cl.log) : cl.log[j].existed}}

\* C3: a cleanup without confirmation leaves the rows as they were, at
\* every step and when it returns, and reports the number of rows it found
\* missing.
C3_UnconfirmedCleanReadOnly ==
    ((pc = "clean_check" \/ CleanReturned) /\ ~cl.confirmed) =>
        /\ db.rows = cl.before
        /\ CleanReturned =>
               /\ ret.deleted = 0
               /\ ret.found = Cardinality(LoggedMissing)

\* an unconfirmed cleanup that found a missing file
C3_Witness == CleanReturned /\ ~cl.confirmed /\ ret.found > 0

\* C4: a confirmed cleanup removes the rows whose file was missing when the
\* row was checked and no others: every row is checked once, the rows seen
\* present stay, the rows seen missing are gone.
C4_ConfirmedCleanExact ==
    (CleanReturned /\ cl.confirmed) =>
        /\ {r.id : r \in cl.before} = LoggedMissing \cup LoggedPresent
        /\ LoggedMissing \cap LoggedPresent = {}
        /\ db.rows = {r \in cl.before : r.id \in LoggedPresent}
        /\ ret.deleted = Cardinality(LoggedMissing)

\* a confirmed cleanup that deleted one row and kept another
C4_Witness ==
    /\ CleanReturned /\ cl.confirmed
    /\ LoggedMissing # {} /\ LoggedPresent # {}

RECURSIVE RunSequential(_, _)
\* the sequential loop over a list of extraction results
RunSequential(c, outs) ==
    IF outs = <<>> THEN c
    ELSE RunSequential(HandleResultST(c, Head(outs)), Tail(outs))

\* what scan_directories_single_thread ends with, from the store the scan
\* at hand started on and the extraction results it got, in list order
SequentialEnd ==
    LET c == RunSequential(Ctx(NewHandler, scan.before, 0, 0, 0), scan.out)
    IN [c EXCEPT !.db = flush_buffer(c.h, c.db).db]

\* C5: an uncancelled scan, parallel with any worker count and any
\* completion order or sequential, ends with the counts and the stored paths
\* the sequential scan ends with for the same work list and the same
\* extraction results.
C5_ParallelEqualsSequential ==
    (ScanReturned /\ ~scan.cancelled) =>
        /\ ret.processed = SequentialEnd.processed_count
        /\ ret.no_exif = SequentialEnd.no_exif_count
        /\ ret.errors = SequentialEnd.error_count
        /\ StoredPaths(db) = StoredPaths(SequentialEnd.db)

\* a parallel scan that wrote its rows in an order other than the list's
C5_Witness ==
    /\ ScanReturned /\ ~scan.cancelled /\ scan.mode = "mp"
    /\ ret.no_exif > 0 /\ ret.errors > 0
    /\ \E r1 \in db.rows : \E r2 \in db.rows :
           r1.file_path < r2.file_path /\ r1.id > r2.id

Counters(sc) == <<sc.no_exif_count, sc.error_count, sc.processed_count>>

\* C6: the step on which the loop sees the stop signal, and every step after
\* it, changes no counter and hands no record to the store; the sequential
\* loop extracts no further file; the scan then goes through its final flush
\* to its summary, which reports the counters as they were.
C6_CooperativeCancel ==
    [][ /\ (scan'.cancelled /\ pc # "idle") =>
               /\ Counters(scan') = Counters(scan)
               /\ h'.handed = h.handed
               /\ (scan.mode = "st" \/ scan.cancelled) =>
                      scan'.extracted = scan.extracted
               /\ pc' \in {"flush", "done"}
               /\ pc' = "done" =>
                      /\ ret'.op = "scan"
                      /\ <<ret'.no_exif, ret'.errors, ret'.processed>>
                             = Counters(scan)
      ]_vars

\* a cancelled scan that had a result at hand and files left has returned
C6_Witness ==
    /\ ScanReturned /\ scan.cancelled
    /\ scan.i <= Len(scan.files) /\ scan.processed_count > 0

\* C7: when a scan with a non-empty work list returns, the buffer is empty
\* and every record handed to insert_exif_data is a row of the store.
C7_FinalFlush ==
    ScanReturned =>
        /\ h.buffer = <<>>
        /\ \A k \in 1..Len(h.handed) : h.handed[k].file_path \in StoredPaths(db)

\* C8: the summary's processed count is the number of rows the scan added
\* (stated for the scans whose store opened).
C8_ProcessedIsRowsAdded ==
    (ScanReturned /\ scan.opened) =>
        ret.processed = Cardinality(db.rows) - Cardinality(scan.before.rows)

\* C9: a scan whose store cannot be opened extracts no file and reports no
\* file as processed.
C9_StorageFailureFatal ==
    (pc \in {"loop", "flush", "done"} /\ scan.roots # <<>> /\ ~scan.opened) =>
        /\ scan.extracted = 0
        /\ ret.processed = 0

\* C10: after a public DatabaseHandler method returns the handler holds no
\* open connection.
C10_NoConnectionHeld == dbret # "none" => ~h.conn

\* C11: single writer in the parallel scan.  A worker step (one more finished
\* task) adds exactly one result to the queue and leaves the store, the
\* handler and its buffer alone; every step of the parallel loop that changes
\* the store or the buffer is the orchestrator taking one result off the queue.
C11_SingleWriter ==
    [][(pc = "loop" /\ scan.mode = "mp") =>
          /\ scan'.done # scan.done =>
                /\ db' = db /\ h' = h
                /\ Cardinality(scan'.done) = Cardinality(scan.done) + 1
                /\ \E r \in {process_file(p) : p \in Range(scan.files)} :
                      scan'.results = Append(scan.results, r)
          /\ (db' # db \/ h' # h) =>
                /\ scan'.done = scan.done
                /\ scan.results # <<>>
                /\ scan'.results = Tail(scan.results)]_vars

\* two workers have results in flight while the orchestrator has already
\* buffered a record
C11_Witness ==
    /\ pc = "loop" /\ scan.mode = "mp" /\ scan.nproc = 2
    /\ Len(scan.results) >= 1
    /\ Cardinality(scan.done) >= 2
    /\ h.buffer # <<>>

\* the result the loop body is about to take: the next file's extraction in
\* the sequential loop, the head of the result queue in the parallel one
ResultAtHand ==
    IF scan.mode = "st" THEN process_file(scan.files[scan.i])
    ELSE Head(scan.results)

\* the loop has a result to take
LoopCanTake ==
    /\ pc = "loop"
    /\ IF scan.mode = "st" THEN scan.i <= Len(scan.files)
       ELSE scan.results # <<>>

UncancelledScanOver == pc = "done" /\ scan.files # <<>> /\ ~scan.cancelled

\* every file of the work list was extracted once and its result taken once
EveryFileConsumedOnce ==
    /\ scan.extracted = Len(scan.files)
    /\ scan.i = Len(scan.files) + 1
    /\ scan.results = <<>>
    /\ \A k \in 1..Len(scan.files) :
          IF FileKind(scan.files[k]) = "dotfile" THEN scan.out[k] = NoResult
          ELSE scan.out[k].file_path = scan.files[k]
    /\ scan.processed_count + scan.error_count
         + Cardinality({k \in 1..Len(scan.files) : scan.out[k].kind = "none"})
       = Len(scan.files)

\* C13: a failed extraction never aborts the scan.  Whenever an uncancelled
\* scan is over, every file of its work list has been consumed exactly once,
\* failed ones included, and the summary was produced; and a scan that has
\* entered its loop always reaches the final flush and the summary.
C13_FailureNeverAborts ==
    /\ [](UncancelledScanOver => (EveryFileConsumedOnce /\ ret.op = "scan"))
    /\ ((pc = "loop") ~> (pc = "done" /\ ret.op = "scan"
                          /\ dbret = "flush_buffer"))

\* a scan whose first file failed went on to process a later one and returned
C13_Witness ==
    /\ UncancelledScanOver
    /\ Len(scan.files) >= 2
    /\ scan.out[1].kind = "error"
    /\ scan.error_count >= 1 /\ scan.processed_count >= 1
    /\ ret.op = "scan"

\* the files under the roots of dir_paths that are directories
FilesUnderValidRoots ==
    {p \in Paths : \E k \in 1..Len(scan.dir_paths) :
                      /\ isdir(scan.dir_paths[k])
                      /\ p \in Range(walk(scan.dir_paths[k]))}

\* C15: every root of dir_paths that is not a directory is reported and left
\* out, and the scan runs over exactly the remaining roots: its work list is
\* the unstored files under them.  When no root is a directory the call
\* returns at once, having enumerated nothing, created no handler and left
\* the store as it was.
C15_InvalidRootsSkipped ==
    /\ [](scan.dir_paths # <<>> =>
            /\ \A k \in 1..Len(scan.dir_paths) :
                  IF isdir(scan.dir_paths[k])
                  THEN scan.dir_paths[k] \in Range(scan.roots)
                  ELSE /\ scan.dir_paths[k] \in Range(scan.skipped)
                       /\ scan.dir_paths[k] \notin Range(scan.roots)
            /\ Len(scan.roots) + Len(scan.skipped) = Len(scan.dir_paths)
            /\ (scan.roots = <<>>) =>
                  /\ pc = "done" /\ ret.op = "no_valid_dirs"
                  /\ scan.files = <<>> /\ scan.extracted = 0
                  /\ h = NewHandler /\ dbret = "none")
    /\ [][/\ (pc = "idle" /\ ret'.op = "no_valid_dirs") =>
                (db' = db /\ h' = h /\ dbret' = dbret /\ pc' = "done")
          /\ (pc = "constructed" /\ pc' # "constructed") =>
                Range(scan'.files) = FilesUnderValidRoots \ StoredPaths(db)]_vars

\* a scan given an invalid root before a valid one has stored a file of the
\* valid one
C15_Witness ==
    /\ Len(scan.dir_paths) = 2
    /\ ~isdir(scan.dir_paths[1]) /\ isdir(scan.dir_paths[2])
    /\ ret.op = "scan" /\ pc = "done"
    /\ db.rows # {}

\* a scan given no valid root has returned with rows of an earlier scan in
\* the store
C15_WitnessNoneValid ==
    /\ ret.op = "no_valid_dirs" /\ pc = "done"
    /\ Len(scan.dir_paths) = 2
    /\ db.rows # {}

\* the step is the delete of a confirmed cleanup whose check found the path
\* of row r missing on disk
RemovedByConfirmedCleanup(r) ==
    /\ pc = "clean_check"
    /\ cl.confirmed
    /\ \E k \in 1..Len(cl.log) : cl.log[k].id = r.id /\ ~cl.log[k].existed

\* C16: a row, once in the store, stays as it was written.  In every step of
\* a scan, flush, query, map generation or cleanup each row of the store is
\* still there afterwards with the same id and field values, and no other
\* row has taken its path, unless the step is the delete of a confirmed
\* cleanup that found the row's path missing on disk.
C16_RowsImmutable ==
    [][\A r \in db.rows :
          \/ /\ r \in db'.rows
             /\ \A q \in db'.rows : q.file_path = r.file_path => q = r
          \/ /\ RemovedByConfirmedCleanup(r)
             /\ r.file_path \notin StoredPaths(db')]_vars

\* a scan met, at a later flush, a path it had already written, and a
\* read query has run over the store
C16_Witness ==
    /\ pc = "done" /\ ret.op \in QueryOps
    /\ db.rows # {}
    /\ hist.set /\ Len(hist.roots) = 2 /\ hist.roots[1] = hist.roots[2]

\* C17: whenever insert_exif_data was the last handler call to return, the
\* buffer holds fewer than buffer_size records.
C17_BufferBelowThreshold ==
    dbret = "insert_exif_data" => Len(h.buffer) < BufferSize

\* the same, for stores that open
C17_BufferBelowThresholdWhenStoreOpens ==
    (dbOk /\ dbret = "insert_exif_data") => Len(h.buffer) < BufferSize

\* the file is an image that opens and carries no tag at all
TaglessImage == ex.ext = "image" /\ ex.opens /\ ex.tags = AllAbsent

\* the record of the file, once process_file has returned one
FileRecord == ex.result.data[1]

\* C14: an image with no extractable tags gives a no-metadata result, not an
\* error, whose record has the file's modification time as date_taken and
\* None in every other field besides the path; the loop body counts the file
\* as processed and as without metadata, not as an error, and the record is
\* a row of the store once the scan has flushed.
C14_TaglessImageStored ==
    (TaglessImage /\ ex.stage # "file") =>
        /\ ex.result.kind = "no_exif"
        /\ FileRecord.date_taken # None
        /\ FileRecord.date_taken = ex.mtime
        /\ FileRecord.file_path = ThePath
        /\ all_none(FileRecord)
        /\ ex.stage # "result" =>
              /\ ex.c.no_exif_count = 1 /\ ex.c.processed_count = 1
              /\ ex.c.error_count = 0
              /\ ex.c.h.handed = <<DataOf(ex.result)>>
        /\ ex.stage \in {"flushed", "mapped"} =>
              \E r \in ex.c.db.rows : r.file_path = ThePath /\ r.meta = "mtime"

\* the same, for a store that opens and a modification time that can be read
C14_TaglessImageStoredWhenStoreOpens ==
    (dbOk /\ ex.mtime # None) => C14_TaglessImageStored

\* a coordinate's tags give a value: the triplet and the reference are there
\* and the three components have denominators
AxisUsable(tag, reftag) ==
    /\ tag.present /\ Len(tag.values) >= 3
    /\ \A i \in 1..3 : tag.values[i].den # 0
    /\ reftag.present /\ reftag.values # ""

BothAxesUsable ==
    /\ AxisUsable(ex.tags.GPSLatitude, ex.tags.GPSLatitudeRef)
    /\ AxisUsable(ex.tags.GPSLongitude, ex.tags.GPSLongitudeRef)

\* C19: the GPS pair is all-or-nothing.  In the record process_file returns
\* for a file, which is the record stored, gps_latitude is None exactly when
\* gps_longitude is None, and both are None whenever either axis lacks its
\* value or its reference or fails to convert; the payload tuple built from
\* the stored row has both coordinates or neither.
C19_GpsAllOrNothing ==
    /\ (ex.stage \notin {"none", "file"} /\ ex.result.data # None) =>
          /\ FileRecord.gps_latitude = None <=> FileRecord.gps_longitude = None
          /\ ~BothAxesUsable =>
                (FileRecord.gps_latitude = None /\ FileRecord.gps_longitude = None)
    /\ ex.stage = "mapped" =>
          \A k \in 1..Len(ex.payload) :
              ex.payload[k].gps_latitude = None
                  <=> ex.payload[k].gps_longitude = None

\* a stored and mapped record whose latitude converted while the longitude
\* had a zero denominator
C19_Witness ==
    /\ ex.stage = "mapped"
    /\ AxisUsable(ex.tags.GPSLatitude, ex.tags.GPSLatitudeRef)
    /\ ex.tags.GPSLongitude.present /\ ex.tags.GPSLongitudeRef.values = "W"
    /\ Len(ex.tags.GPSLongitude.values) = 3
    /\ ex.tags.GPSLongitude.values[1].den = 0
    /\ FileRecord.gps_latitude = None /\ FileRecord.gps_longitude = None

\* C20: the payload tuple of a stored row never carries the pair (0.0, 0.0):
\* a row whose latitude and longitude are both exactly zero, or both round to
\* zero at six digits, comes out as (None, None).
C20_ZeroPairNulled ==
    ex.stage = "mapped" =>
        \A k \in 1..Len(ex.payload) :
            /\ ~(ex.payload[k].gps_latitude = Some(0)
                   /\ ex.payload[k].gps_longitude = Some(0))
            /\ (/\ FileRecord.gps_latitude # None
                /\ FileRecord.gps_longitude # None
                /\ FileRecord.gps_latitude[1].num = 0
                /\ FileRecord.gps_longitude[1].num = 0) =>
                  (ex.payload[k].gps_latitude = None
                     /\ ex.payload[k].gps_longitude = None)

\* a stored row with latitude and longitude exactly zero has been mapped
C20_Witness ==
    /\ ex.stage = "mapped"
    /\ FileRecord.gps_latitude = Some(R(0, 3600))
    /\ FileRecord.gps_longitude = Some(R(0, 3600))
    /\ ex.payload[1].gps_latitude = None

\* row satisfies every filter that args supplies
SatisfiesFilters(row, args) ==
    /\ args.start_date # None =>
          /\ row.date_taken # None
          /\ DateLE(args.start_date[1], row.date_taken[1])
          /\ DateLE(row.date_taken[1], args.end_date[1])
    /\ args.camera_filter # None => row.camera_model = args.camera_filter
    /\ args.allowed_extensions # None =>
          Lower(row.file_path.ext)
              \in {Lower(e) : e \in Range(args.allowed_extensions[1])}

\* C18: get_photos returns each row of the store that satisfies every
\* supplied filter, once, and no other row; and count_photos, called with the
\* same arguments on the same store, returns the number of rows get_photos
\* returns (both return nothing when the store cannot be opened).
C18_FilteredReadAndCount ==
    /\ (qs.stage = "ready" /\ qs.got = "returned" /\ dbOk) =>
          /\ Range(qs.photos)
               = {photo_row(r) : r \in {q \in qs.rows :
                                          SatisfiesFilters(q, qs.args)}}
          /\ \A i \in 1..Len(qs.photos) : \A j \in 1..Len(qs.photos) :
                i # j => qs.photos[i].file_path # qs.photos[j].file_path
    /\ (qs.stage = "ready" /\ qs.got = "returned" /\ qs.counted = "returned") =>
          qs.count = Len(qs.photos)
    /\ (qs.stage = "ready" /\ qs.got # "no" /\ qs.counted # "no") =>
          (qs.got = "raised" <=> qs.counted = "raised")

\* with all three filters supplied, one of two stored rows was returned and
\* counted, the other left out
C18_Witness ==
    /\ qs.stage = "ready" /\ qs.got = "returned" /\ qs.counted = "returned"
    /\ qs.args.start_date # None /\ qs.args.camera_filter # None
    /\ qs.args.allowed_extensions # None
    /\ Cardinality(qs.rows) = 2
    /\ qs.count = 1 /\ Len(qs.photos) = 1
    /\ qs.photos[1].file_path.ext = ".JPG"

\* ---- fractions in lowest terms, for comparing values
RECURSIVE Gcd(_, _)
Gcd(a, b) == IF b = 0 THEN a ELSE Gcd(b, a % b)

Abs(n) == IF n < 0 THEN 0 - n ELSE n

Reduce(x) ==
    LET g == Gcd(Abs(x.num), Abs(x.den))
    IN R(x.num \div g, x.den \div g)

AddQ(x, y) == Reduce(R(x.num * y.den + y.num * x.den, x.den * y.den))

OverQ(x, k) == Reduce(R(x.num, x.den * k))

\* degrees + minutes/60 + seconds/3600 of a triplet
DmsValue(v) == AddQ(AddQ(Reduce(v[1]), OverQ(v[2], 60)), OverQ(v[3], 3600))

\* C21: for a DMS triplet of rationals with non-zero denominators and a
\* hemisphere reference, the coordinate of the record equals
\* degrees + minutes/60 + seconds/3600, negated for the latitude exactly when
\* the reference is S and for the longitude exactly when it is W (the pair is
\* in the record when both axes are usable).
C21_DmsConversion ==
    (ex.stage \notin {"none", "file"} /\ ex.ext = "image" /\ ex.opens
       /\ BothAxesUsable) =>
        LET la == DmsValue(ex.tags.GPSLatitude.values)
            lo == DmsValue(ex.tags.GPSLongitude.values)
        IN /\ FileRecord.gps_latitude # None /\ FileRecord.gps_longitude # None
           /\ Reduce(FileRecord.gps_latitude[1])
                = IF ex.tags.GPSLatitudeRef.values = "S" THEN Neg(la) ELSE la
           /\ Reduce(FileRecord.gps_longitude[1])
                = IF ex.tags.GPSLongitudeRef.values = "W" THEN Neg(lo) ELSE lo

\* a latitude of 3/2 deg 45/2' 18/5" south came out as -469/250, beside a
\* longitude of 1 deg 30' east that came out as 3/2
C21_Witness ==
    /\ ex.stage = "result"
    /\ ex.tags.GPSLatitude.values = <<R(3, 2), R(45, 2), R(18, 5)>>
    /\ ex.tags.GPSLatitudeRef.values = "S"
    /\ ex.tags.GPSLongitude.values = <<R(1, 1), R(30, 1), R(0, 1)>>
    /\ ex.tags.GPSLongitudeRef.values = "E"
    /\ FileRecord.gps_latitude # None
    /\ Reduce(FileRecord.gps_latitude[1]) = R(0 - 469, 250)
    /\ Reduce(FileRecord.gps_longitude[1]) = R(3, 2)

\* the tag's first rational has a zero denominator
ZeroDen(tag) ==
    tag.present /\ tag.values # <<>> /\ tag.values[1].den = 0

\* one of the three components of a coordinate has a zero denominator
GpsZeroDen(tag) ==
    /\ tag.present /\ Len(tag.values) >= 3
    /\ \E i \in 1..3 : tag.values[i].den = 0

RationalTags == {"GPSAltitude", "FNumber", "ExposureTime", "FocalLength"}

\* the tags with every tag that has a zero denominator taken away
WithoutZeroDen(tags) ==
    [t \in DOMAIN tags |->
        IF t \in RationalTags /\ ZeroDen(tags[t]) THEN Tag(FALSE, <<>>)
        ELSE IF t \in {"GPSLatitude", "GPSLongitude"} /\ GpsZeroDen(tags[t])
        THEN Tag(FALSE, <<>>)
        ELSE tags[t]]

SomeZeroDen(tags) == WithoutZeroDen(tags) # tags

\* C22: a zero denominator in a rational tag (a GPS component, the altitude,
\* the F-number, the exposure time, the focal length) is taken as the field
\* being absent: that field is None (for a GPS axis, the pair), every other
\* field is what it is without the tag, the result is not an error and the
\* loop body does not count the file as one.
C22_ZeroDenominatorIsAbsent ==
    (ex.stage \notin {"none", "file"} /\ ex.ext = "image" /\ ex.opens
       /\ SomeZeroDen(ex.tags)) =>
        /\ ex.result.kind \in {"data", "no_exif"}
        /\ ex.result.data # None
        /\ ZeroDen(ex.tags.GPSAltitude) => FileRecord.gps_altitude = None
        /\ ZeroDen(ex.tags.FNumber) => FileRecord.aperture = None
        /\ ZeroDen(ex.tags.ExposureTime) => FileRecord.shutter_speed = None
        /\ ZeroDen(ex.tags.FocalLength) => FileRecord.focal_length = None
        /\ (GpsZeroDen(ex.tags.GPSLatitude) \/ GpsZeroDen(ex.tags.GPSLongitude)) =>
              (FileRecord.gps_latitude = None /\ FileRecord.gps_longitude = None)
        /\ (~GpsZeroDen(ex.tags.GPSLatitude) /\ ~GpsZeroDen(ex.tags.GPSLongitude)
              /\ BothAxesUsable) =>
              (FileRecord.gps_latitude # None /\ FileRecord.gps_longitude # None)
        /\ FileRecord = extract(ThePath, WithoutZeroDen(ex.tags), ex.mtime)
        /\ ex.stage # "result" => ex.c.error_count = 0

\* a file whose longitude has a zero denominator and whose exposure time is
\* 1/4 s was counted as processed with the shutter speed and without the pair
C22_Witness ==
    /\ ex.stage = "handled"
    /\ GpsZeroDen(ex.tags.GPSLongitude)
    /\ AxisUsable(ex.tags.GPSLatitude, ex.tags.GPSLatitudeRef)
    /\ ex.tags.GPSLongitudeRef.values = "E"
    /\ ex.tags.ExposureTime = Tag(TRUE, <<R(1, 4)>>)
    /\ FileRecord.gps_latitude = None
    /\ FileRecord.shutter_speed = Some([form |-> "1/Ns", n |-> 4])
    /\ ex.c.processed_count = 1 /\ ex.c.error_count = 0

\* a file whose altitude has a zero denominator kept its coordinates
C22_WitnessAltitude ==
    /\ ex.stage = "handled"
    /\ ZeroDen(ex.tags.GPSAltitude)
    /\ BothAxesUsable
    /\ FileRecord.gps_altitude = None
    /\ FileRecord.gps_latitude # None
    /\ ex.result.kind = "data"

\* the exposure time of the file, when its tag gives one
ExposureGiven ==
    /\ ex.tags.ExposureTime.present /\ ex.tags.ExposureTime.values # <<>>
    /\ ex.tags.ExposureTime.values[1].den # 0

Exposure == ex.tags.ExposureTime.values[1]

\* C23: shutter_speed is None when the tag is absent or its denominator is
\* zero; it is "1/<n>s" with n = round(1/value) when the value is below one
\* second, and "<k>s" with an integer k >= 1 when the value is at least one
\* second; no other string is produced.
C23_ShutterSpeedForms ==
    (ex.stage \notin {"none", "file"} /\ ex.ext = "image" /\ ex.opens) =>
        /\ ~ExposureGiven => FileRecord.shutter_speed = None
        /\ (ExposureGiven /\ Exposure.num < Exposure.den) =>
              /\ FileRecord.shutter_speed # None
              /\ FileRecord.shutter_speed[1].form = "1/Ns"
              /\ Exposure.num # 0 =>
                    FileRecord.shutter_speed[1].n
                        = RoundHalfEven(Exposure.den, Exposure.num)
        /\ (ExposureGiven /\ Exposure.num >= Exposure.den) =>
              FileRecord.shutter_speed
                  = Some([form |-> "Ns", n |-> Exposure.num \div Exposure.den])
        /\ FileRecord.shutter_speed # None =>
              \/ FileRecord.shutter_speed[1].form = "1/Ns"
              \/ /\ FileRecord.shutter_speed[1].form = "Ns"
                 /\ FileRecord.shutter_speed[1].n >= 1

\* C23, amended: as above, and an exposure time of zero (a zero numerator
\* over a non-zero denominator) gives "0s"; the strings produced are
\* "1/<n>s" with n >= 1, "<k>s" with k >= 1, and "0s".
C23_ShutterSpeedFormsOrZero ==
    (ex.stage \notin {"none", "file"} /\ ex.ext = "image" /\ ex.opens) =>
        /\ ~ExposureGiven => FileRecord.shutter_speed = None
        /\ (ExposureGiven /\ Exposure.num = 0) =>
              FileRecord.shutter_speed = Some([form |-> "Ns", n |-> 0])
        /\ (ExposureGiven /\ Exposure.num # 0 /\ Exposure.num < Exposure.den) =>
              FileRecord.shutter_speed
                  = Some([form |-> "1/Ns",
                          n |-> RoundHalfEven(Exposure.den, Exposure.num)])
        /\ (ExposureGiven /\ Exposure.num >= Exposure.den) =>
              FileRecord.shutter_speed
                  = Some([form |-> "Ns", n |-> Exposure.num \div Exposure.den])
        /\ FileRecord.shutter_speed # None =>
              \/ /\ FileRecord.shutter_speed[1].form = "1/Ns"
                 /\ FileRecord.shutter_speed[1].n >= 1
              \/ /\ FileRecord.shutter_speed[1].form = "Ns"
                 /\ FileRecord.shutter_speed[1].n >= 1
              \/ /\ FileRecord.shutter_speed[1] = [form |-> "Ns", n |-> 0]
                 /\ Exposure.num = 0

\* an exposure time of 0/1 came out as "0s"
C23_ZeroExposure ==
    /\ ex.stage = "result"
    /\ ex.tags.ExposureTime = Tag(TRUE, <<R(0, 1)>>)
    /\ FileRecord.shutter_speed = Some([form |-> "Ns", n |-> 0])

\* 1/2 came out as "1/2s" or 2/1 as "2s"
C23_Examples ==
    /\ ex.stage = "result"
    /\ ex.ext = "image" /\ ex.opens /\ ExposureGiven
    /\ \/ /\ Exposure = R(1, 2)
          /\ FileRecord.shutter_speed = Some([form |-> "1/Ns", n |-> 2])
       \/ /\ Exposure = R(2, 1)
          /\ FileRecord.shutter_speed = Some([form |-> "Ns", n |-> 2])

\* C30: at the end of every uncancelled scan the processed count plus the
\* error count equals the length of the work list, no file being dropped
\* without a count; and at every point of a scan the no-metadata count is at
\* most the processed count.  (The second and third conjuncts say the same of
\* the work list of one file.)
C30_CountersCoverWorkList ==
    /\ UncancelledScanOver =>
          scan.processed_count + scan.error_count = Len(scan.files)
    /\ scan.no_exif_count <= scan.processed_count
    /\ ex.stage \in {"handled", "flushed", "mapped"} =>
          ex.c.processed_count + ex.c.error_count = 1
    /\ ex.stage \notin {"none", "file", "result"} =>
          ex.c.no_exif_count <= ex.c.processed_count

\* the same, for work lists whose files process_file recognises
C30_CountersCoverRecognisedFiles ==
    /\ (UncancelledScanOver
          /\ \A k \in 1..Len(scan.files) : FileKind(scan.files[k]) # "dotfile") =>
          scan.processed_count + scan.error_count = Len(scan.files)
    /\ scan.no_exif_count <= scan.processed_count
    /\ (ex.stage \in {"handled", "flushed", "mapped"} /\ ex.ext # "other") =>
          ex.c.processed_count + ex.c.error_count = 1
    /\ ex.stage \notin {"none", "file", "result"} =>
          ex.c.no_exif_count <= ex.c.processed_count

\* a file the enumeration matched by its name's ending, whose extension
\* process_file does not recognise, was taken by the loop and counted nowhere
C30_FileCountedNowhere ==
    /\ ex.stage = "handled" /\ ex.ext = "other"
    /\ ex.result.kind = "none"
    /\ ex.c.processed_count = 0 /\ ex.c.error_count = 0

\* ---- map generation
\* the document the request produced has its histogram
HistogramDone ==
    /\ mg.stage \in {"write", "done"} /\ mg.html # None
    /\ mg.html[1].photo_counts # None

\* the rows of the store that carry a date
DatedRows == {r \in mg.rows : r.date_taken # None}

RECURSIVE SumCounts(_)
SumCounts(S) ==
    IF S = {} THEN 0
    ELSE LET e == CHOOSE x \in S : TRUE IN e.count + SumCounts(S \ {e})

\* C24: the daily histogram is computed over every row of the whole store
\* that has a date, whatever filters selected the rows of the map: each day's
\* count is the number of such rows on that day, the days are those of the
\* dated rows, the counts add up to the number of dated rows, and the years
\* emitted are the distinct years of those rows in descending order.
C24_HistogramOverWholeStore ==
    HistogramDone =>
        LET counts == mg.html[1].photo_counts[1]
            years == mg.html[1].years[1]
        IN /\ \A e \in counts :
                 /\ e.date.sep = "-"
                 /\ e.count = Cardinality({r \in DatedRows :
                                             r.date_taken[1].day = e.date.day})
           /\ \A r \in DatedRows :
                 \E e \in counts : e.date.day = r.date_taken[1].day
           /\ \A e1 \in counts : \A e2 \in counts :
                 e1.date = e2.date => e1 = e2
           /\ SumCounts(counts) = Cardinality(DatedRows)
           /\ Range(years) = {r.date_taken[1].day \div 10000 : r \in DatedRows}
           /\ \A i \in 1..Len(years) : \A j \in 1..Len(years) :
                 i < j => years[i] > years[j]
           /\ mg.html[1].heatmaps = Some(years)

\* a date range selected one of two dated rows for the map; the histogram
\* has both rows, of two years, the later year first
C24_Witness ==
    /\ mg.stage = "done" /\ mg.out = mg.html /\ HistogramDone
    /\ mg.queries[1].start_date # None
    /\ Len(mg.locations) = 1
    /\ Cardinality(DatedRows) = 2
    /\ mg.html[1].years = Some(<<1, 0>>)
    /\ SumCounts(mg.html[1].photo_counts[1]) = 2

\* two rows of the same day are one entry of count 2
C24_WitnessSameDay ==
    /\ mg.stage = "done" /\ HistogramDone
    /\ Cardinality(mg.rows) = 2
    /\ mg.html[1].photo_counts = Some({[date |-> [day |-> 1, sep |-> "-"],
                                        count |-> 2]})

\* the request got as far as reading the template
TemplateWasRead ==
    /\ mg.stage \in {"heatmap", "write", "done"}
    /\ Len(mg.queries) = 2 /\ mg.locations # <<>>

\* C25: if the template cannot be read (it is missing, unreadable or cannot
\* be decoded) map generation reports the failure and aborts: the call
\* returns without raising, and the output file is neither created nor
\* overwritten.
C25_TemplateFailureAborts ==
    (TemplateWasRead /\ mg.template # "ok") =>
        /\ mg.out = mg.prior
        /\ mg.outcome # "raised"
        /\ "Error: Template file not found" \in mg.msgs
        /\ mg.html = None

\* the same, for the missing template alone
C25_MissingTemplateAborts ==
    (TemplateWasRead /\ mg.template = "missing") =>
        /\ mg.out = mg.prior
        /\ mg.outcome # "raised"
        /\ "Error: Template file not found" \in mg.msgs
        /\ mg.html = None

\* a template that is there and cannot be read made the call raise
C25_UnreadableTemplateRaised ==
    /\ mg.stage = "done" /\ mg.template = "unreadable"
    /\ mg.outcome = "raised" /\ mg.locations # <<>>
    /\ mg.out = mg.prior

\* the store's rows that the request's filters select
FilteredRows == {r \in mg.rows : SatisfiesFilters(r, mg.queries[1])}

MalformedDateGiven ==
    /\ mg.req.entry = "menu" \/ (mg.req.entry = "gui" /\ mg.req.date_filter)
    /\ mg.req.start = BadDate \/ mg.req.end = BadDate

\* the request carries two dates of the form YYYY-MM-DD
WellFormedDatesGiven ==
    /\ mg.req.entry = "menu" \/ (mg.req.entry = "gui" /\ mg.req.date_filter)
    /\ mg.req.start.form = "ymd" /\ mg.req.end.form = "ymd"
    /\ mg.req.entry = "gui" => mg.req.extensions # <<>>

InvalidDateReported ==
    \/ "Invalid date format. Aborting." \in mg.msgs
    \/ "Invalid date format. Please use YYYY-MM-DD." \in mg.msgs

\* C27: a request with a malformed date string, as start or as end, is
\* rejected before any work begins: it is reported, the store is not queried
\* and no output is written; and a request with well-formed dates is not
\* rejected.
C27_MalformedDateRejected ==
    /\ (MalformedDateGiven /\ mg.stage \notin {"request", "called"}
          /\ ~(mg.req.entry = "gui" /\ mg.req.extensions = <<>>)) =>
          /\ mg.stage = "done"
          /\ InvalidDateReported
          /\ mg.queries = <<>>
          /\ mg.out = mg.prior
    /\ (WellFormedDatesGiven /\ mg.stage \notin {"request", "called"}) =>
          /\ ~InvalidDateReported
          /\ mg.queries # <<>>

\* the same, for requests that reach generate_map_non_interactive with both
\* dates given
C27_PairOfDatesValidated ==
    (mg.req.entry = "menu" /\ mg.req.start # Blank /\ mg.req.end # Blank) =>
        C27_MalformedDateRejected

\* a malformed start date typed at the menu with the end date left blank:
\* the store was read without a date filter and the map written
C27_MalformedStartMapped ==
    /\ mg.stage = "done" /\ mg.req.entry = "menu"
    /\ mg.req.start = BadDate /\ mg.req.end = Blank
    /\ mg.queries # <<>> /\ mg.queries[1].start_date = None
    /\ mg.out # mg.prior

\* two well-formed dates in the GUI: the handler raised, nothing was queried
C27_GuiWellFormedRaised ==
    /\ mg.stage = "done" /\ mg.req.entry = "gui" /\ WellFormedDatesGiven
    /\ mg.outcome = "raised" /\ mg.queries = <<>>

\* C29: whenever map generation writes the output file, all six placeholder
\* tokens have been substituted; a failure while the heat-map data is
\* computed never leaves a document with tokens in it at the output path.
C29_WrittenDocumentHasNoTokens ==
    (mg.stage # "none" /\ mg.out # mg.prior) =>
        (mg.out # None /\ mg.out[1].tokens = {})

\* the same, when the heat-map data was computed
C29_NoTokensWhenHeatmapComputed ==
    (mg.stage # "none" /\ mg.out # mg.prior
       /\ "Error generating heatmap" \notin mg.msgs) =>
        (mg.out # None /\ mg.out[1].tokens = {})

\* the heat-map read failed and the document written holds its three tokens
C29_TokensWritten ==
    /\ mg.stage = "done" /\ mg.out # mg.prior
    /\ "Error generating heatmap" \in mg.msgs
    /\ mg.out[1].tokens
         = {"__HEATMAPS__", "__PHOTO_COUNTS_JSON__", "__YEARS_JSON__"}
    /\ mg.prior = Some(PreviousOutput)

\* ---- GUI
\* the scan button offers a new scan
OffersStartScanning ==
    /\ gui.scan_button.text = "Start Scanning"
    /\ gui.scan_button.command = "start_scan"
    /\ gui.scan_button.state = "normal"

\* C28: in the GUI at most one scan runs at any time.  While a scan thread
\* is alive the scan button does not offer "Start Scanning", and the Event
\* the stop button would set is the one the running scan reads, whatever
\* other background tasks start or finish.
C28_OneScanAtATime ==
    gui.stage = "running" =>
        /\ Cardinality(gui.scans) <= 1
        /\ gui.scans # {} =>
              /\ ~OffersStartScanning
              /\ gui.stop_event \in gui.scans

\* the same, as long as no other job was started
C28_OneScanWithoutOtherJobs ==
    (gui.stage = "running" /\ gui.jobs_started = 0) =>
        /\ Cardinality(gui.scans) <= 1
        /\ gui.scans # {} =>
              /\ ~OffersStartScanning
              /\ gui.stop_event \in gui.scans

\* two scan threads are alive and the stop button sets the Event of the
\* second only
C28_TwoScans ==
    /\ gui.stage = "running"
    /\ gui.scans = {1, 2}
    /\ gui.stop_event = 2
    /\ gui.scan_button.command = "stop_scan"

====
